---- MODULE Spec2Model ----
(***************************************************************************)
(* A model of the isar-core collection, index and link engines.            *)
(*                                                                         *)
(* The primary database, the per-index databases and the shared links      *)
(* database are modelled as key/value stores; a write transaction is       *)
(* modelled by the pending store, the store of the last commit and the     *)
(* state of the inner key/value transaction (held or lost).                *)
(***************************************************************************)
EXTENDS Integers, Naturals, Sequences, FiniteSets, TLC

VARIABLES
    data,     \* primary database: [collection id -> [object id -> object or None]]
    index,    \* index databases:  [collection id -> [index position -> set of <<key, id>>]]
    links,    \* links database:   set of <<key prefix, key id, value prefix, value id>>
    oidg,     \* per-collection id generator: last id handed out
    txn,      \* "active": the IsarTxn holds its inner write txn; "poisoned": it was taken and not put back
    snap,     \* the committed store [data, index, links] an abort returns to
    last,     \* the last call: operation, arguments, result
    writer,   \* the async writer of the instance: jobs submitted, queue, job running, log
    pending   \* the PendingPut a prepare_put returned and no finish_put has taken: {} or one

vars == <<data, index, links, oidg, txn, snap, last, writer, pending>>

(***************************************************************************)
(* Bounds of the model                                                     *)
(***************************************************************************)
MaxId == 2      \* caller-supplied object ids are 1..MaxId
MaxGen == 2     \* the id generator hands out at most MaxGen ids per collection
MaxBatch == 2   \* a put_all, delete_all or json import names at most MaxBatch objects

(***************************************************************************)
(* Schema: two collections sharing the primary database; each has the Int  *)
(* properties a and b, a unique index on a and a non-unique index on b.    *)
(***************************************************************************)
Cols == {1, 2}
Col == 1                       \* the collection the operations are called on
OtherCol == CHOOSE c \in Cols : c # Col

Properties == <<"a", "b">>

Indexes == << [property |-> "a", unique |-> TRUE],
              [property |-> "b", unique |-> FALSE] >>

IndexIx == 1..Len(Indexes)

\* The Int values the objects are built from (test_put_clears_old_index).
Vals == {1234, 5678}
AllIds == 1..(IF MaxId > MaxGen THEN MaxId ELSE MaxGen)

\* An object is its byte length and the values its bytes hold at the two
\* Int properties (4 bytes each).
StaticSize == 4 * Len(Properties)
ValidObjects == [len : {StaticSize}, a : Vals, b : Vals]
ShortObject == [len |-> StaticSize - 1, a |-> 0, b |-> 0]
Objects == ValidObjects \cup {ShortObject}

\* ObjectInfo::verify_object: the minimum length check.
verify_object(object) == object.len >= StaticSize

\* ObjectId: the collection prefix and the id proper.
ObjectId(prefix, id) == [prefix |-> prefix, id |-> id]

\* An optional value is the empty set (None) or a singleton (Some).
The(opt) == CHOOSE x \in opt : TRUE

(***************************************************************************)
(* Index keys: an Int is encoded big-endian with the sign bit flipped.     *)
(***************************************************************************)
EncodeInt(v) ==
    LET hi   == v \div 16777216
        rest == v % 16777216
    IN  << hi + 128, rest \div 65536, (rest \div 256) % 256, rest % 256 >>

\* IndexKeyBuilder::create_keys: the sequence of keys of an object in an index.
create_keys(ix, object) ==
    << EncodeInt(IF Indexes[ix].property = "a" THEN object.a ELSE object.b) >>

(***************************************************************************)
(* Key/value cursor primitives on a database given as a set of pairs.      *)
(***************************************************************************)
\* The value order of a duplicate-sorted database: ids ascending.
MinOf(S) == CHOOSE x \in S : \A y \in S : x <= y

\* Cursor::move_to: the first entry at key, if any.
move_to(db, key) ==
    LET vs == {e[2] : e \in {e \in db : e[1] = key}}
    IN  IF vs = {} THEN {} ELSE {<<key, MinOf(vs)>>}

\* Cursor::move_to_key_val: the entry <<key, val>>, if present.
move_to_key_val(db, key, val) ==
    IF <<key, val>> \in db THEN {<<key, val>>} ELSE {}

\* Cursor::put: in a database without duplicates the value at key is replaced.
cursor_put(db, key, val, dup) ==
    IF dup THEN db \cup {<<key, val>>}
    ELSE {e \in db : e[1] # key} \cup {<<key, val>>}

\* Cursor::delete_current at the entry the cursor stands on.
delete_current(db, entry) == db \ {entry}

\* Db::get, Db::put, Db::delete on the primary database of one collection,
\* a function from the live ids to their objects.
db_get(d, id) == IF id \in DOMAIN d THEN {d[id]} ELSE {}
db_put(d, id, object) == [i \in DOMAIN d \cup {id} |-> IF i = id THEN object ELSE d[i]]
db_delete(d, id) == [i \in DOMAIN d \ {id} |-> d[i]]
EmptyDb == [i \in {} |-> ShortObject]

\* A store is the three databases of the instance.
Store(d, i, l) == [data |-> d, index |-> i, links |-> l]
Ok(st) == [st |-> st, err |-> ""]
Err(st, e) == [st |-> st, err |-> e]

(***************************************************************************)
(* Index engine (src/index/mod.rs)                                         *)
(***************************************************************************)
\* The database of a unique index holds one value per key, that of any
\* other index keeps duplicates (iter_between: duplicates = !self.unique).
IndexDbDupAlways(ix) == TRUE
IndexDbDup(ix) == ~Indexes[ix].unique

\* IsarIndex::delete_for_object, one key after the other.
\* A delete that takes the first entry at the key in every index.
RECURSIVE delete_keys_first_at_key(_, _, _, _)
delete_keys_first_at_key(ix, db, id, keys) ==
    IF keys = <<>> THEN db
    ELSE LET key   == Head(keys)
             entry == move_to(db, key)
             db1   == IF entry # {} THEN delete_current(db, The(entry)) ELSE db
         IN  delete_keys_first_at_key(ix, db1, id, Tail(keys))
RECURSIVE delete_keys(_, _, _, _)
delete_keys(ix, db, id, keys) ==
    IF keys = <<>> THEN db
    ELSE LET key   == Head(keys)
             entry == IF Indexes[ix].unique
                      THEN move_to(db, key)
                      ELSE move_to_key_val(db, key, id)
             db1   == IF entry # {} THEN delete_current(db, The(entry)) ELSE db
         IN  delete_keys(ix, db1, id, Tail(keys))

delete_for_object(ix, db, id, object) ==
    delete_keys(ix, db, id, create_keys(ix, object))

(***************************************************************************)
(* Link engine (src/link.rs)                                               *)
(***************************************************************************)
\* Two links share the links database: Friends within the collection and
\* Likes from the collection to the other one.
Friends == [id |-> 1, col_id |-> Col, backlink_id |-> 2, target_col_id |-> Col]
Likes == [id |-> 3, col_id |-> Col, backlink_id |-> 4, target_col_id |-> OtherCol]
SchemaLinks == {Friends, Likes}

to_backlink(l) ==
    [id |-> l.backlink_id, col_id |-> l.target_col_id,
     backlink_id |-> l.id, target_col_id |-> l.col_id]

link_key(l, oid) == <<l.id, oid>>
link_target_key(l, oid) == <<l.target_col_id, oid>>
bl_key(l, oid) == <<l.backlink_id, oid>>
bl_target_key(l, oid) == <<l.col_id, oid>>

LinkEntry(k, v) == <<k[1], k[2], v[1], v[2]>>

\* Link::iter_ids: the values stored under link_key(oid), in value order.
iter_ids_first(l, ldb, oid) ==
    LET vs == {<<e[3], e[4]>> : e \in {e \in ldb : <<e[1], e[2]>> = link_key(l, oid)}}
    IN  IF vs = {} THEN <<>>
        ELSE <<CHOOSE x \in vs : \A y \in vs : x[1] < y[1] \/ (x[1] = y[1] /\ x[2] <= y[2])>>
RECURSIVE SortedSeq(_)
SortedSeq(S) ==
    IF S = {} THEN <<>>
    ELSE LET m == CHOOSE x \in S : \A y \in S :
                      x[1] < y[1] \/ (x[1] = y[1] /\ x[2] <= y[2])
         IN  <<m>> \o SortedSeq(S \ {m})

iter_ids(l, ldb, oid) ==
    SortedSeq({<<e[3], e[4]>> : e \in {e \in ldb : <<e[1], e[2]>> = link_key(l, oid)}})

\* Link::iter: each target key found under link_key(oid) is looked up with
\* the data cursor and its object handed to the callback; the callback is
\* given by the call at which it returns false (0: it never does).
RECURSIVE iter_objects(_, _, _, _)
iter_objects(st, targets, stop, seen) ==
    IF targets = <<>> THEN [err |-> "", ret |-> TRUE, seen |-> seen]
    ELSE LET target_key == Head(targets)
             object == db_get(st.data[target_key[1]], target_key[2])
         IN  IF object = {}
             THEN [err |-> "DbCorrupted", ret |-> FALSE, seen |-> seen]
             ELSE IF Len(seen) + 1 = stop
             THEN [err |-> "", ret |-> FALSE, seen |-> Append(seen, The(object))]
             ELSE iter_objects(st, Tail(targets), stop, Append(seen, The(object)))

link_iter_to_end(l, st, oid, stop) ==
    iter_objects(st, iter_ids(l, st.links, oid), 0, <<>>)
link_iter(l, st, oid, stop) ==
    iter_objects(st, iter_ids(l, st.links, oid), stop, <<>>)

\* Link::create_backlink
create_backlink_swapped(l, ldb, oid, target_oid) ==
    ldb \cup {LinkEntry(bl_key(l, oid), bl_target_key(l, target_oid))}
create_backlink(l, ldb, oid, target_oid) ==
    ldb \cup {LinkEntry(bl_key(l, target_oid), bl_target_key(l, oid))}

\* Link::delete_backlink
delete_backlink_lenient(l, ldb, oid, target_oid) ==
    [ldb |-> ldb \ {LinkEntry(bl_key(l, target_oid), bl_target_key(l, oid))}, err |-> ""]
delete_backlink_of_target(l, ldb, oid, target_oid) ==
    LET e == LinkEntry(bl_key(l, target_oid), bl_target_key(l, oid))
    IN  IF e \in ldb
        THEN [ldb |-> {x \in ldb : <<x[1], x[2]>> # bl_key(l, target_oid)}, err |-> ""]
        ELSE [ldb |-> ldb, err |-> "DbCorrupted"]
delete_backlink(l, ldb, oid, target_oid) ==
    LET e == LinkEntry(bl_key(l, target_oid), bl_target_key(l, oid))
    IN  IF e \in ldb THEN [ldb |-> ldb \ {e}, err |-> ""]
        ELSE [ldb |-> ldb, err |-> "DbCorrupted"]

\* Link::create: both records are looked up with the data cursor first.
link_create_unchecked(l, st, oid, target_oid) ==
    LET l1 == st.links \cup {LinkEntry(link_key(l, oid), link_target_key(l, target_oid))}
    IN  [ldb |-> create_backlink(l, l1, oid, target_oid), err |-> "", ret |-> TRUE]
link_create_replace(l, st, oid, target_oid) ==
    IF db_get(st.data[l.col_id], oid) = {}
       \/ db_get(st.data[l.target_col_id], target_oid) = {}
    THEN [ldb |-> st.links, err |-> "", ret |-> FALSE]
    ELSE LET l1 == {e \in st.links : <<e[1], e[2]>> # link_key(l, oid)}
                       \cup {LinkEntry(link_key(l, oid), link_target_key(l, target_oid))}
         IN  [ldb |-> create_backlink(l, l1, oid, target_oid), err |-> "", ret |-> TRUE]
link_create(l, st, oid, target_oid) ==
    IF db_get(st.data[l.col_id], oid) = {}
       \/ db_get(st.data[l.target_col_id], target_oid) = {}
    THEN [ldb |-> st.links, err |-> "", ret |-> FALSE]
    ELSE LET l1 == st.links \cup {LinkEntry(link_key(l, oid), link_target_key(l, target_oid))}
         IN  [ldb |-> create_backlink(l, l1, oid, target_oid), err |-> "", ret |-> TRUE]

\* Link::delete
link_delete(l, ldb, oid, target_oid) ==
    LET e == LinkEntry(link_key(l, oid), link_target_key(l, target_oid))
    IN  IF e \in ldb
        THEN LET r == delete_backlink(l, ldb \ {e}, oid, target_oid)
             IN  [ldb |-> r.ldb, err |-> r.err, ret |-> (r.err = "")]
        ELSE [ldb |-> ldb, err |-> "", ret |-> FALSE]

\* Link::delete_all_for_object: the forward entries are drained first, then
\* the backlink of each remembered target id is deleted.
RECURSIVE delete_backlinks(_, _, _, _)
delete_backlinks(l, r, oid, target_oids) ==
    IF target_oids = <<>> \/ r.err # "" THEN r
    ELSE delete_backlinks(l, delete_backlink(l, r.ldb, oid, Head(target_oids)),
                          oid, Tail(target_oids))

delete_all_for_object(l, ldb, oid) ==
    LET targets     == iter_ids(l, ldb, oid)
        target_oids == [n \in 1..Len(targets) |-> targets[n][2]]
        drained     == {e \in ldb : <<e[1], e[2]>> # link_key(l, oid)}
    IN  delete_backlinks(l, [ldb |-> drained, err |-> ""], oid, target_oids)

\* IsarInstance::MIN_ID and MAX_ID, the ends of the id range.
MIN_ID == 0 - 2147483647
MAX_ID == 2147483647

\* The byte order of two IntKeys of non-negative ids: prefix, then id.
KeyLeq(k1, k2) == k1[1] < k2[1] \/ (k1[1] = k2[1] /\ k1[2] <= k2[2])

\* Cursor::iter_between(lower, upper, skip_duplicates, ascending = true):
\* the entries the callback is handed, every value of each key in the range
\* or, with skip_duplicates, the first value of each.
iter_between(ldb, lower_key, upper_key, skip_duplicates) ==
    {e \in ldb :
        /\ KeyLeq(lower_key, <<e[1], e[2]>>) /\ KeyLeq(<<e[1], e[2]>>, upper_key)
        /\ skip_duplicates =>
              \A x \in ldb : <<x[1], x[2]>> = <<e[1], e[2]>> => KeyLeq(<<e[3], e[4]>>, <<x[3], x[4]>>)}

\* Link::clear_internal: delete_current at every entry of the range.
clear_internal_skip_duplicates(ldb, min_key, max_key) ==
    ldb \ iter_between(ldb, min_key, max_key, TRUE)
clear_internal(ldb, min_key, max_key) ==
    ldb \ iter_between(ldb, min_key, max_key, FALSE)

\* Link::clear: the id space of the link, then that of its backlink.
link_clear(l, ldb) ==
    clear_internal(clear_internal(ldb, link_key(l, MIN_ID), link_key(l, MAX_ID)),
                   bl_key(l, MIN_ID), bl_key(l, MAX_ID))

(***************************************************************************)
(* IsarIndex::iter_between and IsarIndex::get_id (src/index/mod.rs)        *)
(***************************************************************************)
\* The byte order of two keys.
RECURSIVE BytesLeq(_, _)
BytesLeq(k1, k2) ==
    IF k1 = <<>> THEN TRUE
    ELSE IF k2 = <<>> THEN FALSE
    ELSE IF Head(k1) # Head(k2) THEN Head(k1) < Head(k2)
    ELSE BytesLeq(Tail(k1), Tail(k2))

\* The entries of a database in cursor order: key bytes, then id.
RECURSIVE SortedEntries(_)
SortedEntries(S) ==
    IF S = {} THEN <<>>
    ELSE LET m == CHOOSE x \in S : \A y \in S :
                      IF x[1] = y[1] THEN x[2] <= y[2] ELSE BytesLeq(x[1], y[1])
         IN  <<m>> \o SortedEntries(S \ {m})

\* IsarIndex::iter_between: the ids of the entries whose key lies between
\* the two keys, in cursor order (key bytes, then id) or the reverse; with
\* skip_duplicates the first entry of each key only.
index_iter_between(db, lower_key, upper_key, skip_duplicates, ascending) ==
    LET in_range == {e \in db : BytesLeq(lower_key, e[1]) /\ BytesLeq(e[1], upper_key)}
        kept == IF skip_duplicates
                THEN {e \in in_range : \A x \in in_range : x[1] = e[1] => e[2] <= x[2]}
                ELSE in_range
        es == SortedEntries(kept)
    IN  [n \in 1..Len(es) |-> IF ascending THEN es[n][2] ELSE es[Len(es) + 1 - n][2]]

\* IsarIndex::get_id: the callback keeps the id it is handed and returns
\* Ok(false), which ends the iteration at the first entry.
get_id_from_key_on(db, key) ==
    LET ids == index_iter_between(db, key, EncodeInt(MAX_ID), FALSE, TRUE)
    IN  IF ids = <<>> THEN {} ELSE {Head(ids)}
get_id(db, key) ==
    LET ids == index_iter_between(db, key, key, FALSE, TRUE)
    IN  IF ids = <<>> THEN {} ELSE {Head(ids)}

(***************************************************************************)
(* Collection (src/collection.rs)                                          *)
(***************************************************************************)
\* The links that start at collection c, and those that end there.
LinksOf(c) == {l \in SchemaLinks : l.col_id = c}
BacklinksOf(c) == {to_backlink(l) : l \in {l \in SchemaLinks : l.target_col_id = c}}

\* IsarCollection::verify_object_id
verify_object_id_any_prefix(c, oid) == TRUE
verify_object_id(c, oid) == oid.prefix = c

\* IsarCollection::delete_from_indexes
delete_from_indexes(st, c, id) ==
    LET existing_object == db_get(st.data[c], id)
    IN  IF existing_object # {}
        THEN [st |-> [st EXCEPT !.index[c] =
                        [ix \in IndexIx |->
                            delete_for_object(ix, st.index[c][ix], id, The(existing_object))]],
              found |-> TRUE]
        ELSE [st |-> st, found |-> FALSE]

\* ObjectIdGenerator::generate: the next id of a counter.
generate(g) == g + 1

\* The links of an object, forward and backward, are deleted one link
\* definition after the other.
RECURSIVE delete_links(_, _, _)
delete_links(ls, r, id) ==
    IF ls = {} \/ r.err # "" THEN r
    ELSE LET l == CHOOSE x \in ls : \A y \in ls : x.id <= y.id
         IN  delete_links(ls \ {l}, delete_all_for_object(l, r.ldb, id), id)

\* The delete of a whole record that resolves a unique conflict: its index
\* entries, its links and its primary entry.
delete_internal(st, c, id) ==
    LET d == delete_from_indexes(st, c, id)
        r == delete_links(LinksOf(c) \cup BacklinksOf(c),
                          [ldb |-> d.st.links, err |-> ""], id)
    IN  IF ~d.found THEN Ok(st)
        ELSE IF r.err # "" THEN Err([d.st EXCEPT !.links = r.ldb], r.err)
        ELSE Ok([d.st EXCEPT !.links = r.ldb, !.data[c] = db_delete(@, id)])

\* The on_conflict callback put hands to create_for_object.
on_conflict(st, c, id, existing_id, replace_on_conflict) ==
    IF existing_id = id THEN Ok(st)
    ELSE IF replace_on_conflict THEN delete_internal(st, c, existing_id)
    ELSE Err(st, "UniqueViolation")

\* IsarIndex::create_for_object, the closure run for each key: on a unique
\* index an existing entry at the key is handed to on_conflict, whose error
\* ends the call; then the entry is written.
create_for_key_unchecked(ix, r, c, id, key, replace_on_conflict) ==
    Ok([r.st EXCEPT !.index[c][ix] = cursor_put(@, key, id, IndexDbDup(ix))])
create_for_key(ix, r, c, id, key, replace_on_conflict) ==
    LET existing == IF Indexes[ix].unique
                    THEN move_to(r.st.index[c][ix], key)
                    ELSE {}
        r1 == IF existing # {}
              THEN on_conflict(r.st, c, id, The(existing)[2], replace_on_conflict)
              ELSE r
    IN  IF r1.err # "" THEN r1
        ELSE Ok([r1.st EXCEPT !.index[c][ix] = cursor_put(@, key, id, IndexDbDup(ix))])

\* IsarIndex::create_for_object, one key after the other.
RECURSIVE create_for_keys(_, _, _, _, _, _)
create_for_keys(ix, r, c, id, keys, replace_on_conflict) ==
    IF keys = <<>> \/ r.err # "" THEN r
    ELSE create_for_keys(ix, create_for_key(ix, r, c, id, Head(keys), replace_on_conflict),
                         c, id, Tail(keys), replace_on_conflict)

create_for_object(ix, r, c, id, object, replace_on_conflict) ==
    create_for_keys(ix, r, c, id, create_keys(ix, object), replace_on_conflict)

\* for index in &self.indexes { index.create_for_object(..)? }
RECURSIVE create_for_indexes(_, _, _, _, _, _)
create_for_indexes(ix, r, c, id, object, replace_on_conflict) ==
    IF ix > Len(Indexes) \/ r.err # "" THEN r
    ELSE create_for_indexes(ix + 1,
             create_for_object(ix, r, c, id, object, replace_on_conflict),
             c, id, object, replace_on_conflict)

\* IsarCollection::generate_or_veriy_oid; oid is {} (None) or {ObjectId}.
generate_or_veriy_oid_generated(st, g, c, oid) ==
    [st |-> st, g |-> generate(g), err |-> "", oid |-> {ObjectId(c, generate(g))}]
\* A replace that took the links of the record with its index entries.
generate_or_veriy_oid_unlinking(st, g, c, oid) ==
    IF oid # {}
    THEN IF ~verify_object_id(c, The(oid))
         THEN [st |-> st, g |-> g, err |-> "IllegalArgument", oid |-> oid]
         ELSE [st |-> [delete_from_indexes(st, c, The(oid).id).st EXCEPT
                          !.links = {e \in @ : ~(e[2] = The(oid).id \/ e[4] = The(oid).id)}],
               g |-> g, err |-> "", oid |-> oid]
    ELSE [st |-> st, g |-> generate(g), err |-> "", oid |-> {ObjectId(c, generate(g))}]
generate_or_veriy_oid(st, g, c, oid) ==
    IF oid # {}
    THEN IF ~verify_object_id(c, The(oid))
         THEN [st |-> st, g |-> g, err |-> "IllegalArgument", oid |-> oid]
         ELSE [st |-> delete_from_indexes(st, c, The(oid).id).st, g |-> g,
               err |-> "", oid |-> oid]
    ELSE [st |-> st, g |-> generate(g), err |-> "", oid |-> {ObjectId(c, generate(g))}]

\* IsarCollection::put after take_write_txn: the store it leaves, the
\* generator, the error ("" when it returned Ok) and the id returned.
put(st, g, c, oid, object, replace_on_conflict) ==
    LET gv == generate_or_veriy_oid(st, g, c, oid)
    IN  IF gv.err # ""
        THEN [st |-> gv.st, g |-> gv.g, err |-> gv.err, ret |-> {}]
        ELSE IF ~verify_object(object)
        THEN [st |-> gv.st, g |-> gv.g, err |-> "IllegalArgument", ret |-> {}]
        ELSE LET id == The(gv.oid).id
                 r  == create_for_indexes(1, Ok(gv.st), c, id, object, replace_on_conflict)
             IN  IF r.err # ""
                 THEN [st |-> r.st, g |-> gv.g, err |-> r.err, ret |-> {}]
                 ELSE [st |-> [r.st EXCEPT !.data[c] = db_put(@, id, object)],
                       g |-> gv.g, err |-> "", ret |-> gv.oid]

\* IsarCollection::get after verify_object_id: db.get on the transaction.
get_none(st, c, oid) == {}
get(st, c, oid) == db_get(st.data[c], oid.id)

\* IsarCollection::delete after take_write_txn.
delete_keep_primary(st, c, oid) ==
    LET d == delete_from_indexes(st, c, oid.id)
    IN  [st |-> d.st, ret |-> d.found]
delete(st, c, oid) ==
    LET d == delete_from_indexes(st, c, oid.id)
    IN  IF d.found
        THEN [st |-> [d.st EXCEPT !.data[c] = db_delete(@, oid.id)], ret |-> TRUE]
        ELSE [st |-> d.st, ret |-> FALSE]

\* IsarCollection::clear after take_write_txn.
clear_every_prefix(st, c) ==
    [st EXCEPT !.index[c] = [ix \in IndexIx |-> {}], !.data = [d \in Cols |-> EmptyDb]]
clear(st, c) ==
    [st EXCEPT !.index[c] = [ix \in IndexIx |-> {}], !.data[c] = EmptyDb]

\* isar_put_all: for object in objects { collection.put(..)?; object.set_id(id) }
\* on the store r.st with the generator r.g; an object is the id its
\* RawObject carries ({} for i64::MIN) and its bytes. The first error ends
\* the loop with the earlier puts written; r.puts are the ids set on the
\* objects so far and the bytes put under them.
RECURSIVE put_all(_, _, _, _)
put_all(r, c, objects, replace_on_conflict) ==
    IF objects = <<>> \/ r.err # "" THEN r
    ELSE The({put_all([st |-> p.st, g |-> p.g, err |-> p.err,
                       puts |-> IF p.err = ""
                                THEN Append(r.puts, [id |-> The(p.ret),
                                                     object |-> Head(objects).object])
                                ELSE r.puts],
                      c, Tail(objects), replace_on_conflict) :
                 p \in {put(r.st, r.g, c, Head(objects).id, Head(objects).object,
                            replace_on_conflict)}})

\* IsarCollection::import_json: the records decoded from the JSON array are
\* put one after the other in the one write closure.
import_json(r, c, json, replace_on_conflict) == put_all(r, c, json, replace_on_conflict)

\* isar_delete_all: for id in ids { if collection.delete(txn, *id)? { n += 1 } }
\* on a transaction in state t; collection.delete verifies the id, then
\* takes the write txn; r.ids are the ids whose delete has returned.
RECURSIVE delete_all(_, _, _, _)
delete_all(r, t, c, ids) ==
    IF ids = <<>> \/ r.err # "" THEN r
    ELSE IF ~verify_object_id(c, Head(ids)) THEN [r EXCEPT !.err = "IllegalArgument"]
    ELSE IF t = "poisoned" THEN [r EXCEPT !.err = "TransactionPoisoned"]
    ELSE LET d == delete(r.st, c, Head(ids))
         IN  delete_all([st |-> d.st, err |-> "", n |-> IF d.ret THEN r.n + 1 ELSE r.n,
                         ids |-> Append(r.ids, Head(ids))],
                        t, c, Tail(ids))

\* IsarCollection::delete_by_index after take_write_txn: the record the
\* first index entry at the key names is deleted; id is the id found.
delete_by_index(st, c, index_index, key) ==
    LET id == get_id(st.index[c][index_index], key)
    IN  IF id = {} THEN [st |-> st, ret |-> FALSE, id |-> {}]
        ELSE [st  |-> delete(st, c, ObjectId(c, The(id))).st,
              ret |-> delete(st, c, ObjectId(c, The(id))).ret,
              id  |-> {ObjectId(c, The(id))}]

\* isar_delete_all_by_index: for key in keys { if collection.delete_by_index(..)? { n += 1 } }
RECURSIVE delete_all_by_index(_, _, _, _, _)
delete_all_by_index(r, t, c, index_index, keys) ==
    IF keys = <<>> \/ r.err # "" THEN r
    ELSE IF t = "poisoned" THEN [r EXCEPT !.err = "TransactionPoisoned"]
    ELSE LET d == delete_by_index(r.st, c, index_index, Head(keys))
         IN  delete_all_by_index([st |-> d.st, err |-> "", n |-> IF d.ret THEN r.n + 1 ELSE r.n,
                                  ids |-> IF d.id = {} THEN r.ids ELSE Append(r.ids, The(d.id))],
                                 t, c, index_index, Tail(keys))

(***************************************************************************)
(* State machine                                                           *)
(***************************************************************************)
Current == Store(data, index, links)

\* The record of a call: the operation, the id it was given (kept for the
\* calls that returned Ok), the result, the value returned, and the ids of
\* the other primary records a put removed and whether a record of its id
\* existed (for a link create, whether the forward entry existed; for a
\* link delete_all_for_object, the target ids it found); for a delete that follows a delete of the same id, what that
\* first delete returned; for a get, the object returned; for a link iter,
\* the objects handed to the callback; for a put_all or a json import, the
\* ids put and the bytes put under them; for a delete of several ids or
\* through an index, the ids deleted and the count written.
Call(op, oid, res, retId, retBool) ==
    [op |-> op, oid |-> oid, res |-> res, retId |-> retId, retBool |-> retBool,
     removed |-> {}, existed |-> FALSE, prev |-> {}, retObj |-> {}, seen |-> <<>>,
     puts |-> <<>>, ids |-> <<>>, count |-> {}]

\* IsarTxn: a call that fails after it took the inner write txn does not put
\* it back.
TxnAfter(err) == IF err = "" THEN "active" ELSE "poisoned"

\* The async writer before any job is submitted.
IdleWriter == [submitted |-> <<>>, queue |-> <<>>, running |-> {}, log |-> <<>>, dropped |-> {}]

EmptyStore == Store([c \in Cols |-> EmptyDb], [c \in Cols |-> [ix \in IndexIx |-> {}]], {})

Init ==
    /\ data = EmptyStore.data
    /\ index = EmptyStore.index
    /\ links = EmptyStore.links
    /\ oidg = [c \in Cols |-> 0]
    /\ txn = "active"
    /\ snap = EmptyStore
    /\ last = Call("open", {}, "Ok", {}, FALSE)
    /\ writer = IdleWriter
    /\ pending = {}

SetStore(st) ==
    /\ data' = st.data
    /\ index' = st.index
    /\ links' = st.links

\* IsarTxn::take_write_txn on a transaction whose inner txn was lost.
Poisoned(op) ==
    /\ txn = "poisoned"
    /\ last' = Call(op, {}, "TransactionPoisoned", {}, FALSE)
    /\ UNCHANGED <<data, index, links, oidg, txn, snap, writer, pending>>

\* isar_put -> IsarCollection::put
Put(c, oid, object, roc) ==
    \/ Poisoned("put")
    \/ /\ txn = "active"
       /\ oid = {} => oidg[c] < MaxGen
       /\ LET p == put(Current, oidg[c], c, oid, object, roc)
          IN  /\ SetStore(p.st)
              /\ oidg' = [oidg EXCEPT ![c] = p.g]
              /\ txn' = TxnAfter(p.err)
              /\ last' = IF p.err = ""
                         THEN [Call("put", oid, "Ok", p.ret, FALSE) EXCEPT
                                  !.removed = DOMAIN data[c] \ DOMAIN p.st.data[c],
                                  !.existed = The(p.ret).id \in DOMAIN data[c]]
                         ELSE Call("put", {}, p.err, {}, FALSE)
       /\ UNCHANGED <<snap, writer, pending>>

\* isar_delete -> IsarCollection::delete
Delete(c, oid) ==
    IF ~verify_object_id(c, oid)
    THEN /\ last' = Call("delete", {}, "IllegalArgument", {}, FALSE)
         /\ UNCHANGED <<data, index, links, oidg, txn, snap, writer, pending>>
    ELSE \/ Poisoned("delete")
         \/ /\ txn = "active"
            /\ LET d == delete(Current, c, oid)
               IN  /\ SetStore(d.st)
                   /\ last' = [Call("delete", {oid}, "Ok", {}, d.ret) EXCEPT
                                   !.prev = IF last.op = "delete" /\ last.oid = {oid}
                                            THEN {last.retBool} ELSE {}]
            /\ UNCHANGED <<oidg, txn, snap, writer, pending>>

\* isar_get -> IsarCollection::get
Get(c, oid) ==
    IF ~verify_object_id(c, oid)
    THEN /\ last' = Call("get", {}, "IllegalArgument", {}, FALSE)
         /\ UNCHANGED <<data, index, links, oidg, txn, snap, writer, pending>>
    ELSE \/ Poisoned("get")
         \/ /\ txn = "active"
            /\ last' = [Call("get", {oid}, "Ok", {}, FALSE) EXCEPT
                            !.retObj = get(Current, c, oid)]
            /\ UNCHANGED <<data, index, links, oidg, txn, snap, writer, pending>>

\* isar_clear -> IsarCollection::clear
Clear(c) ==
    \/ Poisoned("clear")
    \/ /\ txn = "active"
       /\ SetStore(clear(Current, c))
       /\ last' = [Call("clear", {}, "Ok", {}, FALSE) EXCEPT !.removed = DOMAIN data[c]]
       /\ UNCHANGED <<oidg, txn, snap, writer, pending>>

\* The objects of a put_all call that take a generated id.
Generated(objects) == {n \in DOMAIN objects : objects[n].id = {}}

\* isar_put_all: the puts of the objects in one closure of the transaction.
PutAll(c, objects, roc) ==
    \/ objects # <<>> /\ Poisoned("put_all")
    \/ /\ txn = "active" \/ objects = <<>>
       /\ oidg[c] + Cardinality(Generated(objects)) <= MaxGen
       /\ \E r \in {put_all([st |-> Current, g |-> oidg[c], err |-> "", puts |-> <<>>],
                              c, objects, roc)} :
              /\ SetStore(r.st)
              /\ oidg' = [oidg EXCEPT ![c] = r.g]
              /\ txn' = IF r.err = "" THEN txn ELSE "poisoned"
              /\ last' = [Call("put_all", {}, IF r.err = "" THEN "Ok" ELSE r.err, {}, FALSE)
                             EXCEPT !.puts = r.puts]
       /\ UNCHANGED <<snap, writer, pending>>

\* isar_json_import -> IsarCollection::import_json
JsonImport(c, json, roc) ==
    \/ json # <<>> /\ Poisoned("json_import")
    \/ /\ txn = "active" \/ json = <<>>
       /\ oidg[c] + Cardinality(Generated(json)) <= MaxGen
       /\ \E r \in {import_json([st |-> Current, g |-> oidg[c], err |-> "", puts |-> <<>>],
                                  c, json, roc)} :
              /\ SetStore(r.st)
              /\ oidg' = [oidg EXCEPT ![c] = r.g]
              /\ txn' = IF r.err = "" THEN txn ELSE "poisoned"
              /\ last' = [Call("json_import", {}, IF r.err = "" THEN "Ok" ELSE r.err, {}, FALSE)
                             EXCEPT !.puts = r.puts]
       /\ UNCHANGED <<snap, writer, pending>>

\* isar_delete_all: the deletes of the ids in one closure; the number of
\* records deleted is written to *count when the closure returns Ok.
DeleteAll(c, ids) ==
    LET r == delete_all([st |-> Current, err |-> "", n |-> 0, ids |-> <<>>], txn, c, ids)
    IN  /\ SetStore(r.st)
        /\ last' = [Call("delete_all", {}, IF r.err = "" THEN "Ok" ELSE r.err, {}, FALSE)
                       EXCEPT !.count = IF r.err = "" THEN {r.n} ELSE {}, !.ids = r.ids]
        /\ UNCHANGED <<oidg, txn, snap, writer, pending>>

\* isar_delete_by_index -> IsarCollection::delete_by_index
DeleteByIndex(c, index_index, key) ==
    \/ Poisoned("delete_by_index")
    \/ /\ txn = "active"
       /\ LET d == delete_by_index(Current, c, index_index, key)
          IN  /\ SetStore(d.st)
              /\ last' = [Call("delete_by_index", {}, "Ok", {}, d.ret) EXCEPT
                             !.ids = IF d.id = {} THEN <<>> ELSE <<The(d.id)>>]
       /\ UNCHANGED <<oidg, txn, snap, writer, pending>>

\* isar_delete_all_by_index: the loop of delete_by_index with its count.
DeleteAllByIndex(c, index_index, keys) ==
    LET r == delete_all_by_index([st |-> Current, err |-> "", n |-> 0, ids |-> <<>>],
                                 txn, c, index_index, keys)
    IN  /\ SetStore(r.st)
        /\ last' = [Call("delete_all_by_index", {}, IF r.err = "" THEN "Ok" ELSE r.err,
                         {}, FALSE)
                       EXCEPT !.count = IF r.err = "" THEN {r.n} ELSE {}, !.ids = r.ids]
        /\ UNCHANGED <<oidg, txn, snap, writer, pending>>

\* txn.commit(): the pending store becomes the committed one.
Commit ==
    /\ txn = "active"
    /\ snap' = Current
    /\ last' = Call("commit", {}, "Ok", {}, FALSE)
    /\ UNCHANGED <<data, index, links, oidg, txn, writer, pending>>

\* txn.abort(): the pending writes are dropped, a PendingPut of the
\* transaction with them; the next transaction starts from the committed
\* store.
Abort ==
    /\ SetStore(snap)
    /\ txn' = "active"
    /\ pending' = {}
    /\ last' = Call("abort", {}, "Ok", {}, FALSE)
    /\ UNCHANGED <<oidg, snap, writer>>

\* Link::create on the cursors of the transaction
LinkCreate(l, oid, target_oid) ==
    /\ txn = "active"
    /\ LET r == link_create(l, Current, oid, target_oid)
       IN  /\ links' = r.ldb
           /\ last' = [Call("link_create", {}, "Ok", {}, r.ret) EXCEPT
                           !.existed = LinkEntry(link_key(l, oid),
                                                 link_target_key(l, target_oid)) \in links]
    /\ UNCHANGED <<data, index, oidg, txn, snap, writer, pending>>

\* Link::delete
LinkDelete(l, oid, target_oid) ==
    /\ txn = "active"
    /\ LET r == link_delete(l, links, oid, target_oid)
       IN  /\ links' = r.ldb
           /\ txn' = TxnAfter(r.err)
           /\ last' = Call("link_delete", {}, IF r.err = "" THEN "Ok" ELSE r.err, {}, r.ret)
    /\ UNCHANGED <<data, index, oidg, snap, writer, pending>>

\* Link::delete_all_for_object
LinkDeleteAll(l, oid) ==
    /\ txn = "active"
    /\ LET r == delete_all_for_object(l, links, oid)
       IN  /\ links' = r.ldb
           /\ txn' = TxnAfter(r.err)
           /\ last' = [Call("link_delete_all", {}, IF r.err = "" THEN "Ok" ELSE r.err,
                            {}, FALSE) EXCEPT
                           !.removed = {e[4] : e \in {e \in links :
                                                        <<e[1], e[2]>> = link_key(l, oid)}}]
    /\ UNCHANGED <<data, index, oidg, snap, writer, pending>>

\* Link::iter on the cursors of the transaction; a read changes nothing.
LinkIter(l, oid, stop) ==
    /\ txn = "active"
    /\ LET r == link_iter(l, Current, oid, stop)
       IN  last' = [Call("link_iter", {}, IF r.err = "" THEN "Ok" ELSE r.err, {}, r.ret)
                       EXCEPT !.seen = r.seen]
    /\ UNCHANGED <<data, index, links, oidg, txn, snap, writer, pending>>

\* Link::clear
LinkClear(l) ==
    /\ txn = "active"
    /\ links' = link_clear(l, links)
    /\ last' = [Call("link_clear", {}, "Ok", {}, FALSE) EXCEPT
                    !.removed = {e[4] : e \in {e \in links : e[1] = l.id}}]
    /\ UNCHANGED <<data, index, oidg, txn, snap, writer, pending>>

PutIds == {{}} \cup {{ObjectId(c, i)} : c \in Cols, i \in 1..MaxId}
DeleteIds == {ObjectId(c, i) : c \in Cols, i \in AllIds}

\* One write transaction on a fresh collection.
Next ==
    \/ \E oid \in PutIds, object \in Objects, roc \in BOOLEAN : Put(Col, oid, object, roc)
    \/ \E oid \in DeleteIds : Delete(Col, oid)
    \/ Clear(Col)

Spec == Init /\ [][Next]_vars

\* Transactions one after the other, committed or aborted; the objects put
\* differ in the property of the unique index.
TxnObjects == {o \in ValidObjects : o.b = 1234}

NextTxn ==
    \/ \E oid \in PutIds, object \in TxnObjects, roc \in BOOLEAN : Put(Col, oid, object, roc)
    \/ \E oid \in DeleteIds : Delete(Col, oid)
    \/ Commit
    \/ Abort

SpecTxn == Init /\ [][NextTxn]_vars

\* Objects of one collection and the links between them, in one write
\* transaction. The edges the calls name run from any id to one of the
\* first MaxTarget ids, named from either end: through the link as
\* (source, target) and through its backlink as (target, source).
LinkDefs == {Friends, to_backlink(Friends)}
OwnIds == {ObjectId(Col, i) : i \in 1..MaxId}
MaxTarget == 2
TargetIds == {i \in 1..MaxId : i <= MaxTarget}

NextLink ==
    \/ \E oid \in OwnIds, object \in TxnObjects, roc \in BOOLEAN : Put(Col, {oid}, object, roc)
    \/ \E oid \in OwnIds : Delete(Col, oid)
    \/ \E s \in 1..MaxId, t \in TargetIds :
          LinkCreate(Friends, s, t) \/ LinkCreate(to_backlink(Friends), t, s)
    \/ \E s \in 1..MaxId, t \in TargetIds :
          LinkDelete(Friends, s, t) \/ LinkDelete(to_backlink(Friends), t, s)
    \/ \E l \in LinkDefs, s \in 1..MaxId : LinkDeleteAll(l, s)
    \/ \E l \in LinkDefs : LinkClear(l)

SpecLink == Init /\ [][NextLink]_vars

\* The calls on one object of a collection, the get included, in write
\* transactions that are aborted once they are done or have failed.
NextCalls ==
    \/ \E oid \in PutIds, object \in TxnObjects, roc \in BOOLEAN : Put(Col, oid, object, roc)
    \/ \E oid \in DeleteIds : Delete(Col, oid)
    \/ \E oid \in DeleteIds : Get(Col, oid)
    \/ Clear(Col)
    \/ Abort

SpecCalls == Init /\ [][NextCalls]_vars

\* Every operation of a collection, reads included, in write transactions
\* that are aborted once they are done or have failed.
\* The calls on several objects, ids or keys name at most MaxBatch of them.
\* The objects of a put_all share the value of the unique index and carry
\* the first or the last id of the collection or an id of the other
\* collection, or they carry no id and the other value; the records of a
\* json import carry the first id or none; the ids of a delete_all are the
\* first and the last of the collection and one of the other collection.
Batches(S) == UNION {[1..n -> S] : n \in 0..MaxBatch}
BatchObjects ==
    {o \in [id : PutIds, object : TxnObjects] :
        IF o.id = {} THEN o.object.a # MinOf(Vals)
        ELSE /\ o.object.a = MinOf(Vals)
             /\ The(o.id) \in {ObjectId(Col, MinOf(1..MaxId)), ObjectId(Col, MaxId),
                                ObjectId(OtherCol, MaxId)}}
JsonRecords == {o \in BatchObjects : o.id \subseteq {ObjectId(Col, MinOf(1..MaxId))}}
BatchIds == {ObjectId(Col, MinOf(1..MaxId)), ObjectId(Col, MaxId), ObjectId(OtherCol, MaxId)}
BatchKeys == {EncodeInt(v) : v \in Vals}

NextOps ==
    \/ \E oid \in PutIds, object \in TxnObjects, roc \in BOOLEAN : Put(Col, oid, object, roc)
    \/ \E oid \in DeleteIds : Delete(Col, oid)
    \/ \E oid \in DeleteIds : Get(Col, oid)
    \/ Clear(Col)
    \/ \E objects \in Batches(BatchObjects), roc \in BOOLEAN : PutAll(Col, objects, roc)
    \/ \E json \in Batches(JsonRecords), roc \in BOOLEAN : JsonImport(Col, json, roc)
    \/ \E ids \in Batches(BatchIds) : DeleteAll(Col, ids)
    \/ \E ix \in IndexIx, key \in BatchKeys : DeleteByIndex(Col, ix, key)
    \/ \E ix \in IndexIx, keys \in Batches(BatchKeys) : DeleteAllByIndex(Col, ix, keys)
    \/ Abort

SpecOps == Init /\ [][NextOps]_vars

\* Two collections of the instance and the link between them, in one
\* write transaction; the link calls name one id at the target end, present
\* or not.
NamedIds == {MinOf(1..MaxId)}

NextCols ==
    \/ \E c \in Cols, i \in 1..MaxId, object \in TxnObjects, roc \in BOOLEAN :
          Put(c, {ObjectId(c, i)}, object, roc)
    \/ \E c \in Cols, i \in 1..MaxId : Delete(c, ObjectId(c, i))
    \/ \E c \in Cols : Clear(c)
    \/ \E s \in 1..MaxId, t \in NamedIds : LinkCreate(Likes, s, t)
    \/ \E s \in 1..MaxId, t \in NamedIds : LinkDelete(Likes, s, t)

SpecCols == Init /\ [][NextCols]_vars

\* The targets of one source are linked and iterated while records are put
\* and deleted, in one write transaction.
Stops == 0..MaxId

NextIter ==
    \/ \E oid \in OwnIds, object \in TxnObjects, roc \in BOOLEAN : Put(Col, {oid}, object, roc)
    \/ \E oid \in OwnIds : Delete(Col, oid)
    \/ \E s \in NamedIds, t \in 1..MaxId : LinkCreate(Friends, s, t)
    \/ \E s \in NamedIds, stop \in Stops : LinkIter(Friends, s, stop)

SpecIter == Init /\ [][NextIter]_vars

\* The link operations on a links database read as it is found: any set
\* of forward and backlink entries of the link between the records of two
\* ids, symmetric or not.
EdgeIds == {1, 2}
EdgeObjects == [i \in EdgeIds |-> [len |-> StaticSize,
                                   a |-> IF i = MinOf(EdgeIds) THEN 1234 ELSE 5678,
                                   b |-> 1234]]
FoundStore(ldb) ==
    Store([c \in Cols |-> IF c = Col THEN EdgeObjects ELSE EmptyDb],
          [c \in Cols |-> [ix \in IndexIx |->
              IF c = Col
              THEN UNION {{<<create_keys(ix, EdgeObjects[i])[n], i>> :
                              n \in 1..Len(create_keys(ix, EdgeObjects[i]))} : i \in EdgeIds}
              ELSE {}]],
          ldb)

InitFound ==
    /\ \E ldb \in SUBSET (UNION {{LinkEntry(link_key(Friends, s), link_target_key(Friends, t)),
                                   LinkEntry(bl_key(Friends, t), bl_target_key(Friends, s))} :
                                  s \in EdgeIds, t \in EdgeIds}) :
          /\ data = FoundStore(ldb).data
          /\ index = FoundStore(ldb).index
          /\ links = ldb
          /\ snap = FoundStore(ldb)
    /\ oidg = [c \in Cols |-> 0]
    /\ txn = "active"
    /\ last = Call("open", {}, "Ok", {}, FALSE)
    /\ writer = IdleWriter
    /\ pending = {}

NextFound ==
    \/ \E s \in EdgeIds, t \in EdgeIds : LinkCreate(Friends, s, t)
    \/ \E s \in EdgeIds, t \in EdgeIds : LinkDelete(Friends, s, t)
    \/ \E s \in EdgeIds : LinkDeleteAll(Friends, s)
    \/ LinkClear(Friends)
    \/ Abort

SpecFound == InitFound /\ [][NextFound]_vars

\* Two links in the one links database: records of both collections are put
\* under supplied ids, edges of Friends and of Likes are created from one
\* source, and either link is cleared, through itself or its backlink.
RecordOf(i) == [len |-> StaticSize, a |-> 1233 + i, b |-> 1234]
ClearDefs == SchemaLinks \cup {to_backlink(l) : l \in SchemaLinks}

NextClear ==
    \/ \E c \in Cols, i \in 1..MaxId :
          \E object \in {RecordOf(i), ShortObject} : Put(c, {ObjectId(c, i)}, object, TRUE)
    \/ \E l \in SchemaLinks, s \in NamedIds, t \in 1..MaxId : LinkCreate(l, s, t)
    \/ \E l \in ClearDefs : LinkClear(l)

SpecClear == Init /\ [][NextClear]_vars

(***************************************************************************)
(* Query (src/query/where_clause.rs)                                       *)
(***************************************************************************)
\* The collection that is queried has the Int property a with a non-unique
\* index and the IntList property words with a multi-entry index, which
\* holds one entry per element of the list.
QueryIndexes == << [property |-> "a", multi_entry |-> FALSE],
                   [property |-> "words", multi_entry |-> TRUE] >>
QueryIndexIx == 1..Len(QueryIndexes)
QueryVals == {1, 2, 3}
QueryObjects == {[a |-> 1, words |-> <<1>>], [a |-> 2, words |-> <<1, 2>>]}

query_keys(ix, object) ==
    IF QueryIndexes[ix].multi_entry
    THEN [n \in 1..Len(object.words) |-> EncodeInt(object.words[n])]
    ELSE << EncodeInt(object.a) >>

\* The where clauses: an id range of the primary database, or a key range
\* of one index.
IdWhereClause(lower, upper) == [kind |-> "Id", lower |-> lower, upper |-> upper]
IndexWhereClause(ix, lower, upper, skip_duplicates) ==
    [kind |-> "Index", index |-> ix, lower_key |-> EncodeInt(lower),
     upper_key |-> EncodeInt(upper), skip_duplicates |-> skip_duplicates]

\* IdWhereClause::is_overlapping, IndexWhereClause::is_overlapping and
\* IndexWhereClause::has_duplicates.
id_is_overlapping(wc1, wc2) ==
    wc1.lower <= wc2.upper /\ wc2.lower <= wc1.upper
index_is_overlapping(wc1, wc2) ==
    /\ wc1.index = wc2.index
    /\ BytesLeq(wc1.lower_key, wc2.upper_key) /\ BytesLeq(wc2.lower_key, wc1.upper_key)
index_has_duplicates(wc) ==
    QueryIndexes[wc.index].multi_entry /\ ~wc.skip_duplicates

\* WhereClause::is_overlapping
is_overlapping_any_kind(wc1, wc2) ==
    IF wc1.kind = "Id" /\ wc2.kind = "Id" THEN id_is_overlapping(wc1, wc2)
    ELSE IF wc1.kind = "Index" /\ wc2.kind = "Index" THEN index_is_overlapping(wc1, wc2)
    ELSE TRUE
is_overlapping_never(wc1, wc2) == FALSE
is_overlapping(wc1, wc2) ==
    IF wc1.kind = "Id" /\ wc2.kind = "Id" THEN id_is_overlapping(wc1, wc2)
    ELSE IF wc1.kind = "Index" /\ wc2.kind = "Index" THEN index_is_overlapping(wc1, wc2)
    ELSE FALSE

\* WhereClause::has_duplicates
has_duplicates(wc) ==
    IF wc.kind = "Id" THEN FALSE ELSE index_has_duplicates(wc)

\* The ids a where clause comes by, in the order of its scan: the ids of
\* the primary database within the range, or the ids of the entries of the
\* index within the key range, the first of each key with skip_duplicates.
wc_ids(wc, primary, indexes) ==
    IF wc.kind = "Id"
    THEN LET es == SortedEntries({<<<<>>, i>> : i \in {i \in DOMAIN primary :
                                                wc.lower <= i /\ i <= wc.upper}})
         IN  [n \in 1..Len(es) |-> es[n][2]]
    ELSE LET db == indexes[wc.index]
             in_range == {e \in db : BytesLeq(wc.lower_key, e[1]) /\ BytesLeq(e[1], wc.upper_key)}
             kept == IF wc.skip_duplicates
                     THEN {e \in in_range : \A x \in in_range : x[1] = e[1] => e[2] <= x[2]}
                     ELSE in_range
             es == SortedEntries(kept)
         IN  [n \in 1..Len(es) |-> es[n][2]]

\* WhereClause::iter: an id that result_ids holds is passed over, any other
\* is entered into result_ids (when there is one) and handed to the callback.
RECURSIVE wc_iter(_, _, _)
wc_iter(ids, result_ids, out) ==
    IF ids = <<>> THEN [result_ids |-> result_ids, out |-> out]
    ELSE IF result_ids # {} /\ Head(ids) \in The(result_ids)
    THEN wc_iter(Tail(ids), result_ids, out)
    ELSE wc_iter(Tail(ids),
                 IF result_ids = {} THEN {} ELSE {The(result_ids) \cup {Head(ids)}},
                 Append(out, Head(ids)))

\* Query::find_all: the set of ids seen is kept only when two where clauses
\* overlap or one of them has duplicates.
RECURSIVE find_all_clauses(_, _, _, _)
find_all_clauses(where_clauses, primary, indexes, r) ==
    IF where_clauses = <<>> THEN r.out
    ELSE find_all_clauses(Tail(where_clauses), primary, indexes,
             wc_iter(wc_ids(Head(where_clauses), primary, indexes), r.result_ids, r.out))

find_all(where_clauses, primary, indexes) ==
    LET n == Len(where_clauses)
        where_clauses_overlapping ==
            \E i \in 1..n, j \in 1..n : i < j /\ is_overlapping(where_clauses[i], where_clauses[j])
        duplicates == \E i \in 1..n : has_duplicates(where_clauses[i])
        result_ids == IF where_clauses_overlapping \/ duplicates THEN {{}} ELSE {}
    IN  find_all_clauses(where_clauses, primary, indexes, [result_ids |-> result_ids, out |-> <<>>])

\* The record of a call on a query, and the query or the clauses a call
\* is about to be made with.
QueryCall(op, query, seen, retBool) ==
    [op |-> op, query |-> query, seen |-> seen, retBool |-> retBool, res |-> "Ok"]
QueryInput(fn, query) == [op |-> "input", fn |-> fn, query |-> query, res |-> "Ok"]

\* Query::find_all on the collection as it is in the transaction.
FindAll(where_clauses) ==
    /\ txn = "active"
    /\ last' = QueryCall("find_all", where_clauses,
                         find_all(where_clauses, data[Col], index[Col]), FALSE)
    /\ UNCHANGED <<data, index, links, oidg, txn, snap, writer, pending>>

\* WhereClause::is_overlapping and has_duplicates of a pair of clauses.
IsOverlapping(wc1, wc2) ==
    /\ last' = QueryCall("is_overlapping", <<wc1, wc2>>, <<>>, is_overlapping(wc1, wc2))
    /\ UNCHANGED <<data, index, links, oidg, txn, snap, writer, pending>>

HasDuplicates(wc) ==
    /\ last' = QueryCall("has_duplicates", <<wc>>, <<>>, has_duplicates(wc))
    /\ UNCHANGED <<data, index, links, oidg, txn, snap, writer, pending>>

\* The queried collection holds any of the objects under the ids of
\* QueryIds, each with its index entries; the queries have one or two where
\* clauses. QueryIds has one id more than MaxId and QueryVals one key more
\* than the objects hold, so that two id ranges and two key ranges can
\* overlap in part, neither within the other.
QueryIds == 1..(MaxId + 1)
QueryStores == UNION {[ids -> QueryObjects] : ids \in SUBSET QueryIds}
QueryIndexOf(primary) ==
    [ix \in QueryIndexIx |->
        UNION {{<<query_keys(ix, primary[i])[n], i>> :
                   n \in 1..Len(query_keys(ix, primary[i]))} : i \in DOMAIN primary}]
WhereClauses ==
    {IdWhereClause(lo, up) : lo \in QueryIds, up \in QueryIds}
    \cup {IndexWhereClause(1, lo, up, FALSE) : lo \in QueryVals, up \in QueryVals}
    \cup {IndexWhereClause(2, lo, up, sd) : lo \in QueryVals, up \in QueryVals, sd \in BOOLEAN}
OrderedClauses ==
    {wc \in WhereClauses : IF wc.kind = "Id" THEN wc.lower <= wc.upper
                           ELSE BytesLeq(wc.lower_key, wc.upper_key)}
Queries == {<<wc>> : wc \in OrderedClauses}
           \cup {<<wc1, wc2>> : wc1 \in OrderedClauses, wc2 \in OrderedClauses}

InitQuery ==
    /\ \E primary \in QueryStores :
          /\ data = [c \in Cols |-> IF c = Col THEN primary ELSE EmptyDb]
          /\ index = [c \in Cols |-> IF c = Col THEN QueryIndexOf(primary)
                                     ELSE [ix \in QueryIndexIx |-> {}]]
          /\ snap = Store(data, index, {})
    /\ links = {}
    /\ oidg = [c \in Cols |-> 0]
    /\ txn = "active"
    /\ \/ \E q \in Queries : last = QueryInput("find_all", q)
       \/ \E wc1 \in OrderedClauses, wc2 \in OrderedClauses :
             last = QueryInput("is_overlapping", <<wc1, wc2>>)
       \/ \E wc \in OrderedClauses : last = QueryInput("has_duplicates", <<wc>>)
    /\ writer = IdleWriter
    /\ pending = {}

NextQuery ==
    \/ last.op = "input" /\ last.fn = "find_all" /\ FindAll(last.query)
    \/ last.op = "input" /\ last.fn = "is_overlapping"
          /\ IsOverlapping(last.query[1], last.query[2])
    \/ last.op = "input" /\ last.fn = "has_duplicates" /\ HasDuplicates(last.query[1])

SpecQuery == InitQuery /\ [][NextQuery]_vars

(***************************************************************************)
(* The index engine called with a callback of the caller's                 *)
(* (src/index/mod.rs)                                                      *)
(***************************************************************************)
\* IsarIndex::create_for_object with an on_conflict that changes nothing
\* and returns Ok(answer): for each key, on a unique index, the callback is
\* called for the entry found at the key and `?` passes on its error only;
\* then the entry is put. The result is the database, the error and whether
\* the callback was called.
RECURSIVE create_for_object_answered(_, _, _, _, _, _)
create_for_object_answered(ix, db, id, keys, answer, called) ==
    IF keys = <<>> THEN [db |-> db, err |-> "", called |-> called]
    ELSE LET key == Head(keys)
             existing == IF Indexes[ix].unique THEN move_to(db, key) ELSE {}
         IN  create_for_object_answered(ix, cursor_put(db, key, id, IndexDbDup(ix)),
                                        id, Tail(keys), answer, called \/ existing # {})

IndexCreateForObject(ix, id, object, answer) ==
    /\ txn = "active"
    /\ LET r == create_for_object_answered(ix, index[Col][ix], id,
                                           create_keys(ix, object), answer, FALSE)
       IN  /\ index' = [index EXCEPT ![Col][ix] = r.db]
           /\ last' = [op |-> "create_for_object", res |-> IF r.err = "" THEN "Ok" ELSE r.err,
                       ix |-> ix, id |-> id, keys |-> create_keys(ix, object),
                       answer |-> answer, called |-> r.called]
    /\ UNCHANGED <<data, links, oidg, txn, snap, writer, pending>>

\* IsarIndex::delete_for_object
IndexDeleteForObject(ix, id, object) ==
    /\ txn = "active"
    /\ index' = [index EXCEPT ![Col][ix] = delete_for_object(ix, @, id, object)]
    /\ last' = [op |-> "delete_for_object", res |-> "Ok", ix |-> ix, id |-> id,
                keys |-> create_keys(ix, object), answer |-> TRUE, called |-> FALSE]
    /\ UNCHANGED <<data, links, oidg, txn, snap, writer, pending>>

NextIndex ==
    \/ \E ix \in IndexIx, id \in 1..MaxId, object \in ValidObjects, answer \in BOOLEAN :
          IndexCreateForObject(ix, id, object, answer)
    \/ \E ix \in IndexIx, id \in 1..MaxId, object \in ValidObjects :
          IndexDeleteForObject(ix, id, object)

SpecIndex == Init /\ [][NextIndex]_vars

(***************************************************************************)
(* Filters (src/query/filter.rs) and Property::compare                     *)
(* (src/object/property.rs)                                                *)
(***************************************************************************)
\* A float is NaN or a number; the comparisons of two floats are false as
\* soon as one of them is NaN.
NaN == [nan |-> TRUE, v |-> 0]
Float(v) == [nan |-> FALSE, v |-> v]
FloatVals == {0 - 1, 0, 1}
Floats == {NaN} \cup {Float(v) : v \in FloatVals}
is_nan(f) == f.nan
FloatLe(f1, f2) == ~f1.nan /\ ~f2.nan /\ f1.v <= f2.v
FloatGe(f1, f2) == ~f1.nan /\ ~f2.nan /\ f1.v >= f2.v
FloatGt(f1, f2) == ~f1.nan /\ ~f2.nan /\ f1.v > f2.v

\* float_filter_between!: FloatBetweenCond::evaluate, DoubleBetweenCond::evaluate
float_between_plain(lower, upper, val) ==
    FloatLe(lower, val) /\ FloatGe(upper, val)
float_between(lower, upper, val) ==
    IF is_nan(upper) THEN is_nan(lower) /\ is_nan(val)
    ELSE IF is_nan(lower) THEN FloatGe(upper, val) \/ is_nan(val)
    ELSE FloatLe(lower, val) /\ FloatGe(upper, val)

\* A string is the sequence of its characters: '*', '?', 'A' and 'a'.
MaxStr == 2
Chars == {42, 63, 65, 97}
StoredChars == {65, 97}
StringsOver(cs) == UNION {[1..n -> cs] : n \in 0..MaxStr}
to_lowercase(str) == [n \in 1..Len(str) |-> IF str[n] = 65 THEN 97 ELSE str[n]]
starts_with(str, prefix) ==
    Len(prefix) <= Len(str) /\ SubSeq(str, 1, Len(prefix)) = prefix
ends_with(str, suffix) ==
    Len(suffix) <= Len(str) /\ SubSeq(str, Len(str) - Len(suffix) + 1, Len(str)) = suffix

\* fast_wild_compare_portable: '*' stands for any run of characters and
\* '?' for exactly one.
RECURSIVE fast_wild_compare_portable(_, _)
fast_wild_compare_portable(tame, wild) ==
    IF wild = <<>> THEN tame = <<>>
    ELSE IF Head(wild) = 42
    THEN \/ fast_wild_compare_portable(tame, Tail(wild))
         \/ tame # <<>> /\ fast_wild_compare_portable(Tail(tame), wild)
    ELSE /\ tame # <<>>
         /\ Head(wild) = 63 \/ Head(wild) = Head(tame)
         /\ fast_wild_compare_portable(Tail(tame), Tail(wild))

\* string_filter!, the comparison of each filter.
StringFilters == {"StringEqual", "StringStartsWith", "StringEndsWith", "StringLike"}
string_compare(name, filter_str, other_str) ==
    CASE name = "StringEqual" -> filter_str = other_str
      [] name = "StringStartsWith" -> starts_with(other_str, filter_str)
      [] name = "StringEndsWith" -> ends_with(other_str, filter_str)
      [] name = "StringLike" -> fast_wild_compare_portable(other_str, filter_str)

\* string_filter_struct!: filter() keeps the value, lower-cased unless
\* case_sensitive. An optional string is {} (None) or {str}.
string_filter_value(value, case_sensitive) ==
    IF case_sensitive THEN value ELSE {to_lowercase(str) : str \in value}

\* string_filter!: evaluate of the filter on the string read from the object.
string_evaluate_as_stored(name, value, case_sensitive, other_str) ==
    IF value # {} /\ other_str # {}
    THEN string_compare(name, The(value), The(other_str))
    ELSE value = {} /\ other_str = {}
string_evaluate(name, value, case_sensitive, other_str) ==
    IF value # {} /\ other_str # {}
    THEN IF case_sensitive
         THEN string_compare(name, The(value), The(other_str))
         ELSE string_compare(name, The(value), to_lowercase(The(other_str)))
    ELSE value = {} /\ other_str = {}

\* The data types of a property.
DataTypes == {"Byte", "Int", "Float", "Long", "Double", "String",
              "ByteList", "IntList", "FloatList", "LongList", "DoubleList", "StringList"}

\* filter_not_equal_struct! and string_filter_struct!: the data type filter()
\* asks of the property, per filter (primitive_list_filter!(ByteListContains,
\* Byte, ..), string_filter_struct!(StringListContains)).
ListFilters == {"ByteListContains", "IntListContains", "LongListContains", "StringListContains"}
list_filter_data_type(name) ==
    CASE name = "ByteListContains" -> "Byte"
      [] name = "IntListContains" -> "Int"
      [] name = "LongListContains" -> "Long"
      [] name = "StringListContains" -> "String"
list_filter(name, data_type) ==
    IF data_type = list_filter_data_type(name) THEN "Ok" ELSE "IllegalArgument"

\* primitive_list_filter! and StringListContainsCond: evaluate on the list
\* read from the object, {} (None) or {list}.
RECURSIVE contains(_, _)
contains(list, value) ==
    list # <<>> /\ (Head(list) = value \/ contains(Tail(list), value))
list_evaluate(value, list) ==
    IF list # {} THEN contains(The(list), value) ELSE FALSE

\* StringListContainsCond::evaluate: the value kept by filter() is looked
\* for among the strings of the list, each {} (None) or {str}.
string_list_evaluate(value, case_sensitive, list) ==
    IF list # {} THEN contains(The(list), string_filter_value(value, case_sensitive))
    ELSE FALSE

\* Property::compare: the values the property has in the two objects; a
\* String is {} (None) or {str}.
RECURSIVE str_cmp(_, _)
str_cmp(s1, s2) ==
    IF s1 = <<>> THEN (IF s2 = <<>> THEN "Equal" ELSE "Less")
    ELSE IF s2 = <<>> THEN "Greater"
    ELSE IF Head(s1) < Head(s2) THEN "Less"
    ELSE IF Head(s1) > Head(s2) THEN "Greater"
    ELSE str_cmp(Tail(s1), Tail(s2))
int_cmp(v1, v2) == IF v1 < v2 THEN "Less" ELSE IF v1 > v2 THEN "Greater" ELSE "Equal"
float_cmp(f1, f2) ==
    IF ~is_nan(f1)
    THEN IF ~is_nan(f2)
         THEN IF FloatGt(f1, f2) THEN "Greater" ELSE "Less"
         ELSE "Greater"
    ELSE IF ~is_nan(f2) THEN "Less" ELSE "Equal"

compare(data_type, object1, object2) ==
    CASE data_type \in {"Byte", "Int", "Long"} -> int_cmp(object1, object2)
      [] data_type \in {"Float", "Double"} -> float_cmp(object1, object1)
      [] data_type = "String" ->
            IF object1 # {}
            THEN IF object2 # {} THEN str_cmp(The(object1), The(object2)) ELSE "Greater"
            ELSE IF object2 # {} THEN "Less" ELSE "Equal"

\* The call of one of these functions: its arguments are drawn first, then
\* the function is applied to them.
Input(fn, args) == [op |-> "input", fn |-> fn, args |-> args, res |-> "Ok"]
Output(fn, args, ret) == [op |-> fn, fn |-> fn, args |-> args, res |-> "Ok", ret |-> ret]

OptStrings(cs) == {{}} \cup {{str} : str \in StringsOver(cs)}
ListVals == {1, 2}
OptLists == {{}} \cup {{l} : l \in UNION {[1..n -> ListVals] : n \in 0..2}}
OptStringLists == {{}} \cup {{<<>>}} \cup {{<<str>>} : str \in OptStrings(StoredChars)}
ComparedTypes == {"Byte", "Int", "Long", "Float", "Double", "String"}
ValuesOf(data_type) ==
    CASE data_type \in {"Byte", "Int", "Long"} -> FloatVals
      [] data_type \in {"Float", "Double"} -> Floats
      [] data_type = "String" -> OptStrings(StoredChars)

InitFilter ==
    /\ data = EmptyStore.data
    /\ index = EmptyStore.index
    /\ links = EmptyStore.links
    /\ oidg = [c \in Cols |-> 0]
    /\ txn = "active"
    /\ snap = EmptyStore
    /\ writer = IdleWriter
    /\ pending = {}
    /\ \/ \E lower \in Floats, upper \in Floats, val \in Floats :
             last = Input("float_between", <<lower, upper, val>>)
       \/ \E name \in StringFilters, value \in OptStrings(Chars), case_sensitive \in BOOLEAN,
             other_str \in OptStrings(StoredChars) :
             last = Input("string_filter", <<name, value, case_sensitive, other_str>>)
       \/ \E name \in ListFilters, data_type \in DataTypes :
             last = Input("list_filter", <<name, data_type>>)
       \/ \E value \in ListVals, list \in OptLists :
             last = Input("list_evaluate", <<value, list>>)
       \/ \E value \in OptStrings(StoredChars), case_sensitive \in BOOLEAN,
             list \in OptStringLists :
             last = Input("string_list_evaluate", <<value, case_sensitive, list>>)
       \/ \E data_type \in ComparedTypes :
             \E object1 \in ValuesOf(data_type), object2 \in ValuesOf(data_type) :
                last = Input("compare", <<data_type, object1, object2>>)

FloatBetween ==
    /\ last.op = "input" /\ last.fn = "float_between"
    /\ last' = Output(last.fn, last.args,
                      float_between(last.args[1], last.args[2], last.args[3]))
    /\ UNCHANGED <<data, index, links, oidg, txn, snap, writer, pending>>

StringFilter ==
    /\ last.op = "input" /\ last.fn = "string_filter"
    /\ last' = Output(last.fn, last.args,
                      string_evaluate(last.args[1],
                                      string_filter_value(last.args[2], last.args[3]),
                                      last.args[3], last.args[4]))
    /\ UNCHANGED <<data, index, links, oidg, txn, snap, writer, pending>>

ListFilter ==
    /\ last.op = "input" /\ last.fn = "list_filter"
    /\ last' = Output(last.fn, last.args, list_filter(last.args[1], last.args[2]))
    /\ UNCHANGED <<data, index, links, oidg, txn, snap, writer, pending>>

ListEvaluate ==
    /\ last.op = "input" /\ last.fn = "list_evaluate"
    /\ last' = Output(last.fn, last.args, list_evaluate(last.args[1], last.args[2]))
    /\ UNCHANGED <<data, index, links, oidg, txn, snap, writer, pending>>

StringListEvaluate ==
    /\ last.op = "input" /\ last.fn = "string_list_evaluate"
    /\ last' = Output(last.fn, last.args,
                      string_list_evaluate(last.args[1], last.args[2], last.args[3]))
    /\ UNCHANGED <<data, index, links, oidg, txn, snap, writer, pending>>

Compare ==
    /\ last.op = "input" /\ last.fn = "compare"
    /\ last' = Output(last.fn, last.args, compare(last.args[1], last.args[2], last.args[3]))
    /\ UNCHANGED <<data, index, links, oidg, txn, snap, writer, pending>>

NextFilter ==
    \/ FloatBetween
    \/ StringFilter
    \/ ListFilter
    \/ ListEvaluate
    \/ StringListEvaluate
    \/ Compare

SpecFilter == InitFilter /\ [][NextFilter]_vars

(***************************************************************************)
(* Async writer (src/dart-ffi/src/query.rs)                                *)
(***************************************************************************)
MaxJobs == 3    \* the callers submit at most MaxJobs jobs
AsyncOps == {"find_all", "count"}

\* A job is the operation of its closure; it is known by its place in the
\* sequence of submissions. The log holds the start and the end of each run.
Started(log, j) == \E n \in 1..Len(log) : log[n] = <<"start", j>>
Done(log, j) == \E n \in 1..Len(log) : log[n] = <<"done", j>>

\* IsarAsyncTxn::exec: the closure is sent to the writer thread.
exec(w, op) ==
    [w EXCEPT !.submitted = Append(@, op),
              !.queue = Append(@, Len(w.submitted) + 1)]

\* The closure of a count is run where it is submitted, whatever the
\* writer does.
ExecCountOnCaller(op) ==
    /\ Len(writer.submitted) < MaxJobs
    /\ writer' = IF op = "count"
                 THEN [writer EXCEPT !.submitted = Append(@, op),
                                     !.log = @ \o << <<"start", Len(writer.submitted) + 1>>,
                                                     <<"done", Len(writer.submitted) + 1>> >>]
                 ELSE exec(writer, op)
    /\ last' = Call("exec", {}, "Ok", {}, FALSE)
    /\ UNCHANGED <<data, index, links, oidg, txn, snap, pending>>

\* isar_q_find_all_async, isar_q_count_async: txn.exec(closure).
Exec(op) ==
    /\ Len(writer.submitted) < MaxJobs
    /\ writer' = exec(writer, op)
    /\ last' = Call("exec", {}, "Ok", {}, FALSE)
    /\ UNCHANGED <<data, index, links, oidg, txn, snap, pending>>

\* The caller drops the future of a job it submitted.
DropFuture(j) ==
    /\ j \in 1..Len(writer.submitted) /\ j \notin writer.dropped
    /\ writer' = [writer EXCEPT !.dropped = @ \cup {j}]
    /\ last' = Call("drop", {}, "Ok", {}, FALSE)
    /\ UNCHANGED <<data, index, links, oidg, txn, snap, pending>>

\* The writer thread takes the job at the head of its queue ...
WriterStart ==
    /\ writer.running = {} /\ writer.queue # <<>>
    /\ writer' = [writer EXCEPT !.running = {Head(writer.queue)},
                                !.queue = Tail(@),
                                !.log = Append(@, <<"start", Head(writer.queue)>>)]
    /\ UNCHANGED <<data, index, links, oidg, txn, snap, last, pending>>

\* ... and runs its closure on the transaction to the end.
WriterFinish ==
    /\ writer.running # {}
    /\ writer' = [writer EXCEPT !.running = {},
                                !.log = Append(@, <<"done", The(writer.running)>>)]
    /\ last' = Call(writer.submitted[The(writer.running)], {}, "Ok", {}, FALSE)
    /\ UNCHANGED <<data, index, links, oidg, txn, snap, pending>>

NextAsync ==
    \/ \E op \in AsyncOps : Exec(op)
    \/ \E j \in 1..MaxJobs : DropFuture(j)
    \/ WriterStart
    \/ WriterFinish

\* The writer thread runs for as long as the instance is open.
SpecAsync == Init /\ [][NextAsync]_vars /\ WF_vars(WriterStart) /\ WF_vars(WriterFinish)

(***************************************************************************)
(* Properties                                                              *)
(***************************************************************************)
\* The keys IndexKeyBuilder computes from an object, as a set, and the
\* entries an index must hold for a primary database.
KeysOf(ix, object) == {create_keys(ix, object)[n] : n \in 1..Len(create_keys(ix, object))}
ExpectedIndex(d, ix) == UNION {{<<k, id>> : k \in KeysOf(ix, d[id])} : id \in DOMAIN d}
IndexCoherent(st, c) == \A ix \in IndexIx : st.index[c][ix] = ExpectedIndex(st.data[c], ix)

\* C1: in every state of a write transaction that still holds its inner
\* txn, every index of the collection holds exactly the (key, id) entries
\* computed from the live primary records: none missing, none stale.
C1_IndexCoherence == txn = "active" => IndexCoherent(Current, Col)

\* C2: a unique index never holds two entries with the same key, whatever
\* puts, deletes and clears were called.
C2_UniqueOneEntryPerKey ==
    \A ix \in IndexIx : Indexes[ix].unique =>
        \A e1 \in index[Col][ix], e2 \in index[Col][ix] : e1[1] = e2[1] => e1 = e2

\* C2 witness: a put has just replaced the record that held its unique key.
C2_Witness ==
    /\ last.op = "put" /\ last.res = "Ok" /\ last.removed # {}
    /\ index[Col][1] # {}

\* C3: a forward entry (link_id, s) -> t exists if and only if the backlink
\* entry (backlink_id, t) -> s exists.
C3_LinkSymmetry ==
    \A e \in links :
        /\ e[1] = Friends.id =>
              LinkEntry(bl_key(Friends, e[4]), bl_target_key(Friends, e[2])) \in links
        /\ e[1] = Friends.backlink_id =>
              LinkEntry(link_key(Friends, e[4]), link_target_key(Friends, e[2])) \in links

\* C3 witness: an edge was deleted and other edges are still stored.
C3_Witness ==
    /\ last.op \in {"link_delete", "link_delete_all"} /\ last.res = "Ok"
    /\ Cardinality(links) >= 4

\* The id a put stores its object under, and whether a unique index holds
\* one of the object's keys for another id.
PutId(oid) == IF oid = {} THEN generate(oidg[Col]) ELSE The(oid).id
HeldByOther(oid, object) ==
    \E ix \in IndexIx : Indexes[ix].unique /\
        \E e \in index[Col][ix] : e[1] \in KeysOf(ix, object) /\ e[2] # PutId(oid)
OwnPutIds == {oid \in PutIds : oid = {} \/ verify_object_id(Col, The(oid))}

\* A step is a put without replace_on_conflict of a valid object whose
\* unique key another id holds.
ConflictingPut(oid, object, roc) ==
    /\ txn = "active"
    /\ HeldByOther(oid, object)
    /\ Put(Col, oid, object, roc)

\* C4 as stated: the put fails with UniqueViolation and the store the
\* rollback returns to is the store as it was just before the put.
C4_RollbackIsStateBeforePut ==
    [][\A oid \in OwnPutIds, object \in ValidObjects :
          ConflictingPut(oid, object, FALSE) =>
              /\ last'.res = "UniqueViolation"
              /\ snap'.data = data /\ snap'.index = index]_vars

\* C4 amended: the put fails with UniqueViolation and loses the inner txn,
\* so that only a rollback can follow; the rollback returns the primary
\* store and every index to the store of the last commit.
C4_UniqueViolationThenRollback ==
    [][/\ \A oid \in OwnPutIds, object \in ValidObjects :
             ConflictingPut(oid, object, FALSE) =>
                 /\ last'.res = "UniqueViolation"
                 /\ txn' = "poisoned"
                 /\ snap' = snap
       /\ (txn = "poisoned" /\ last'.op = "abort") =>
                 /\ data' = snap.data /\ index' = snap.index
                 /\ txn' = "active"]_vars

\* C4 witness: a put has failed with UniqueViolation in a transaction that
\* started from committed records.
C4_Witness ==
    /\ last.op = "put" /\ last.res = "UniqueViolation" /\ txn = "poisoned"
    /\ DOMAIN snap.data[Col] # {}

\* The ids other than the put's own that a unique index holds at a key of
\* the object, and the link entries in which an id is source or target.
Holders(oid, object) ==
    UNION {{e[2] : e \in {e \in index[Col][ix] :
                             e[1] \in KeysOf(ix, object) /\ e[2] # PutId(oid)}} :
           ix \in {ix \in IndexIx : Indexes[ix].unique}}
LinkEntriesOf(ldb, ids) == {e \in ldb : e[2] \in ids \/ e[4] \in ids}

\* C5: a put with replace_on_conflict of an object whose unique key is held
\* by a different id succeeds; exactly the holder is deleted (primary entry,
\* entries in every index, links), no other record is removed or changed,
\* and afterwards the key points at the new id only.
C5_ReplaceOnConflict ==
    [][\A oid \in OwnPutIds, object \in ValidObjects :
          ConflictingPut(oid, object, TRUE) =>
              LET id == PutId(oid)
                  hs == Holders(oid, object)
              IN  /\ last'.res = "Ok" /\ txn' = "active"
                  /\ DOMAIN data'[Col] = (DOMAIN data[Col] \ hs) \cup {id}
                  /\ data'[Col][id] = object
                  /\ \A i \in DOMAIN data'[Col] \ {id} : data'[Col][i] = data[Col][i]
                  /\ \A ix \in IndexIx : \A e \in index'[Col][ix] : e[2] \notin hs
                  /\ links' = links \ LinkEntriesOf(links, hs)
                  /\ \A ix \in IndexIx : Indexes[ix].unique =>
                        \A e \in index'[Col][ix] :
                            e[1] \in KeysOf(ix, object) => e[2] = id]_vars

\* C6 (as claimed): a put of bytes verify_object rejects returns
\* IllegalArgument and the primary store, every index and the links are as
\* before the call, also when the id supplied is that of an existing record.
C6_InvalidPutWritesNothing ==
    [][\A oid \in OwnPutIds, roc \in BOOLEAN :
          (txn = "active" /\ Put(Col, oid, ShortObject, roc)) =>
              /\ last'.res = "IllegalArgument"
              /\ data' = data /\ index' = index /\ links' = links]_vars

\* C7: a delete returns whether the record existed; a delete that follows a
\* delete of the same id leaves the primary store, the indexes and the links
\* as the first delete left them and returns false.
C7_DeleteTwice ==
    [][\A oid \in DeleteIds :
          (txn = "active" /\ verify_object_id(Col, oid) /\ last'.oid = {oid}
              /\ Delete(Col, oid)) =>
              /\ last'.res = "Ok"
              /\ last'.retBool = (oid.id \in DOMAIN data[Col])
              /\ (last.op = "delete" /\ last.res = "Ok" /\ last.oid = {oid}) =>
                    /\ data' = data /\ index' = index /\ links' = links
                    /\ last'.retBool = FALSE]_vars

\* C7 witness: the second of two deletes of a record that existed, in a
\* store that still holds a record, index entries and links.
C7_Witness ==
    /\ last.op = "delete" /\ last.prev = {TRUE} /\ last.retBool = FALSE
    /\ DOMAIN data[Col] # {} /\ index[Col][1] # {} /\ links # {}

\* C8 (as claimed): the delete of an existing record removes the primary
\* record of the id and the index entries that point at the id, and nothing
\* else of the collection.
C8_DeleteFrame ==
    [][\A oid \in DeleteIds :
          (txn = "active" /\ verify_object_id(Col, oid) /\ oid.id \in DOMAIN data[Col]
              /\ Delete(Col, oid)) =>
              /\ DOMAIN data'[Col] = DOMAIN data[Col] \ {oid.id}
              /\ \A i \in DOMAIN data'[Col] : data'[Col][i] = data[Col][i]
              /\ \A ix \in IndexIx :
                    index'[Col][ix] = {e \in index[Col][ix] : e[2] # oid.id}]_vars

\* A successful put of a valid object under an id the caller supplied.
SuppliedPut(oid, object, roc) ==
    /\ txn = "active"
    /\ last'.op = "put" /\ last'.res = "Ok" /\ last'.oid = {oid}
    /\ Put(Col, {oid}, object, roc)

\* C9 (as claimed): a put with a supplied id returns that id and the object
\* is the one record of the id; all other records are unchanged.
C9_OtherRecordsUnchanged ==
    [][\A oid \in OwnIds, object \in ValidObjects, roc \in BOOLEAN :
          SuppliedPut(oid, object, roc) =>
              /\ last'.retId = {oid}
              /\ data'[Col][oid.id] = object
              /\ DOMAIN data'[Col] = DOMAIN data[Col] \cup {oid.id}
              /\ \A i \in DOMAIN data[Col] \ {oid.id} : data'[Col][i] = data[Col][i]]_vars

\* C9: a put with a supplied id returns that id and the object is the one
\* record of the id; the records whose ids a unique index held at a key of
\* the object are deleted (replace_on_conflict), all others are unchanged.
C9_SuppliedIdPut ==
    [][\A oid \in OwnIds, object \in ValidObjects, roc \in BOOLEAN :
          SuppliedPut(oid, object, roc) =>
              /\ last'.retId = {oid}
              /\ data'[Col][oid.id] = object
              /\ DOMAIN data'[Col] =
                    (DOMAIN data[Col] \ Holders({oid}, object)) \cup {oid.id}
              /\ (~roc => Holders({oid}, object) = {})
              /\ \A i \in DOMAIN data'[Col] \ {oid.id} : data'[Col][i] = data[Col][i]]_vars

\* C9 witness: a put under a supplied id has replaced the bytes of the
\* record of that id while another record is live.
C9_Witness ==
    /\ last.op = "put" /\ last.res = "Ok" /\ last.oid # {} /\ last.existed
    /\ last.retId = last.oid
    /\ Cardinality(DOMAIN data[Col]) = 2

\* C10 (as claimed): a put with no id stores the object under an id that no
\* live record has and that is greater than every id generated before, and
\* overwrites no record.
C10_GeneratedIdIsFresh ==
    [][\A object \in ValidObjects, roc \in BOOLEAN :
          (txn = "active" /\ Put(Col, {}, object, roc) /\ last'.res = "Ok") =>
              /\ last'.retId # {}
              /\ The(last'.retId).id \notin DOMAIN data[Col]
              /\ The(last'.retId).id > oidg[Col]
              /\ data'[Col][The(last'.retId).id] = object
              /\ \A i \in DOMAIN data[Col] \cap DOMAIN data'[Col] :
                    data'[Col][i] = data[Col][i]]_vars

\* C11: a clear of a collection leaves it without primary records and
\* without index entries, and leaves the primary records and the index
\* entries of every other collection as they were.
C11_ClearFrame ==
    [][\A c \in Cols :
          (txn = "active" /\ last'.op = "clear" /\ Clear(c)) =>
              /\ last'.res = "Ok"
              /\ DOMAIN data'[c] = {}
              /\ \A ix \in IndexIx : index'[c][ix] = {}
              /\ \A d \in Cols \ {c} : data'[d] = data[d] /\ index'[d] = index[d]]_vars

\* C11 witness: a clear has removed the records of the collection while the
\* other collection holds records and index entries.
C11_Witness ==
    /\ last.op = "clear" /\ last.res = "Ok" /\ last.removed # {}
    /\ DOMAIN data[Col] = {}
    /\ Cardinality(DOMAIN data[OtherCol]) = 2
    /\ \A ix \in IndexIx : index[OtherCol][ix] # {}

\* The step is a put that returned id i, a delete of id i or a clear.
Touches(i) ==
    \/ last'.op = "put" /\ last'.retId = {ObjectId(Col, i)}
    \/ last'.op = "delete" /\ last'.oid = {ObjectId(Col, i)}
    \/ last'.op = "clear"

\* What a put that returned id i and a delete of id i make of the record
\* of i.
PutDelete(i) ==
    /\ (last'.op = "put" /\ last'.retId = {ObjectId(Col, i)}) =>
          \E object \in ValidObjects, roc \in BOOLEAN :
              db_get(data'[Col], i) = {object} /\ Put(Col, last'.oid, object, roc)
    /\ (last'.op = "delete" /\ last'.oid = {ObjectId(Col, i)}) =>
          db_get(data'[Col], i) = {}

\* C12 (as claimed): within a write transaction a get of an id returns the bytes
\* of the last successful put of the id, and none after its delete; only a
\* put or a delete of the same id or a clear changes what it returns.
C12_GetAfterPut ==
    [][\A i \in AllIds :
          /\ PutDelete(i)
          /\ (last'.op = "get" /\ Get(Col, ObjectId(Col, i))) =>
                last'.res = "Ok" /\ last'.retObj = db_get(data[Col], i)
          /\ ~Touches(i) /\ last'.op # "abort" =>
                db_get(data'[Col], i) = db_get(data[Col], i)]_vars

\* C12: as above, but a put with replace_on_conflict of another id also
\* removes the record when a unique index held its id at a key of the new
\* object, and on a poisoned transaction a get returns TransactionPoisoned
\* and no bytes.
C12_GetAfterPutUnlessReplaced ==
    [][\A i \in AllIds :
          /\ PutDelete(i)
          /\ (last'.op = "get" /\ Get(Col, ObjectId(Col, i))) =>
                IF txn = "poisoned"
                THEN last'.res = "TransactionPoisoned" /\ last'.retObj = {}
                ELSE last'.res = "Ok" /\ last'.retObj = db_get(data[Col], i)
          /\ ~Touches(i) /\ last'.op # "abort" =>
                \/ db_get(data'[Col], i) = db_get(data[Col], i)
                \/ /\ last'.op = "put" /\ i \in last'.removed
                   /\ db_get(data'[Col], i) = {}
                   /\ \E ix \in IndexIx : Indexes[ix].unique /\
                         \E e \in index[Col][ix] : e[2] = i /\
                            e[1] \in KeysOf(ix, data'[Col][The(last'.retId).id])]_vars

\* C12 witness: a get has returned the bytes a put stored under the id
\* while another record is live.
C12_Witness ==
    /\ last.op = "get" /\ last.res = "Ok" /\ last.retObj # {}
    /\ Cardinality(DOMAIN data[Col]) = 2
    /\ \E i \in DOMAIN data[Col] :
          last.oid = {ObjectId(Col, i)} /\ last.retObj = {data[Col][i]}

\* C13 (as claimed): once a put, delete or clear has failed after it took
\* the inner write txn, every further operation returns TransactionPoisoned
\* and changes nothing, until the transaction is aborted.
C13_EveryCallPoisoned ==
    [][/\ (txn = "active" /\ last'.op \in {"put", "delete", "clear"}
              /\ last'.res \notin {"Ok", "IllegalArgument"}) => txn' = "poisoned"
       /\ (txn = "poisoned" /\ last'.op # "abort") =>
              /\ last'.res = "TransactionPoisoned"
              /\ txn' = "poisoned"
              /\ data' = data /\ index' = index /\ links' = links]_vars

\* C14 (as claimed): a put, delete or clear that took the inner write txn
\* has put it back when it returns, whatever it returns.
C14_WriteTxnGivenBack ==
    [][(txn = "active" /\ last'.op \in {"put", "delete", "clear"}) =>
          txn' = "active"]_vars

\* The forward entry and the backlink entry of the edge s -> t of a link.
Forward(l, s, t) == <<l.id, s, l.target_col_id, t>>
Backward(l, s, t) == <<l.backlink_id, t, l.col_id, s>>

\* C15: Link create returns whether the source record exists in the source
\* collection and the target record in the target collection; if so it adds
\* the forward and the backlink entry, otherwise it writes nothing.
C15_CreateNeedsBothRecords ==
    [][\A s \in 1..MaxId, t \in NamedIds :
          (txn = "active" /\ last'.op = "link_create" /\ LinkCreate(Likes, s, t)) =>
              LET both == /\ s \in DOMAIN data[Likes.col_id]
                          /\ t \in DOMAIN data[Likes.target_col_id]
              IN  /\ last'.res = "Ok" /\ last'.retBool = both
                  /\ links' = IF both
                              THEN links \cup {Forward(Likes, s, t), Backward(Likes, s, t)}
                              ELSE links
                  /\ data' = data /\ index' = index]_vars

\* C15 witness: create has returned false when every source record exists
\* and the target collection holds records, but not the target named.
C15_Witness ==
    /\ last.op = "link_create" /\ last.res = "Ok" /\ last.retBool = FALSE
    /\ DOMAIN data[Col] = 1..MaxId
    /\ DOMAIN data[OtherCol] = (1..MaxId) \ NamedIds
    /\ links = {}

\* C16: a create of an edge that is there leaves the links database as it
\* is; after a create the database holds the forward and the backlink entry
\* of the edge once, next to what it held; one delete of the edge removes
\* both entries.
C16_CreateIdempotent ==
    [][\A l \in LinkDefs, s \in 1..MaxId, t \in 1..MaxId :
          /\ (txn = "active" /\ last'.op = "link_create" /\ last'.retBool
                /\ LinkCreate(l, s, t)) =>
                /\ links' = links \cup {Forward(l, s, t), Backward(l, s, t)}
                /\ Forward(l, s, t) \in links =>
                      links' = links /\ Cardinality(links') = Cardinality(links)
          /\ (txn = "active" /\ last'.op = "link_delete" /\ Forward(l, s, t) \in links
                /\ LinkDelete(l, s, t)) =>
                /\ last'.res = "Ok" /\ last'.retBool
                /\ links' = links \ {Forward(l, s, t), Backward(l, s, t)}]_vars

\* C16 witness: a second create of the one edge of the database has
\* returned true; the database holds its two entries.
C16_Witness ==
    /\ last.op = "link_create" /\ last.retBool /\ last.existed
    /\ \E s \in 1..MaxId, t \in 1..MaxId :
          s # t /\ links = {Forward(Friends, s, t), Backward(Friends, s, t)}

\* C17: a link delete of an edge whose forward entry is there returns true
\* and removes its forward and its backlink entry and no other entry; when
\* the forward entry is absent it returns false and changes nothing.
C17_LinkDeleteFrame ==
    [][\A l \in LinkDefs, s \in 1..MaxId, t \in 1..MaxId :
          (txn = "active" /\ last'.op = "link_delete" /\ LinkDelete(l, s, t)) =>
              /\ last'.res = "Ok"
              /\ last'.retBool = (Forward(l, s, t) \in links)
              /\ Forward(l, s, t) \notin links' /\ Backward(l, s, t) \notin links'
              /\ \A e \in links \ {Forward(l, s, t), Backward(l, s, t)} : e \in links'
              /\ links' \subseteq links
              /\ ~last'.retBool => links' = links
              /\ data' = data /\ index' = index]_vars

\* C17 witness: a link delete has returned true and every other edge of
\* the link is still there.
C17_Witness ==
    /\ last.op = "link_delete" /\ last.res = "Ok" /\ last.retBool
    /\ Cardinality(links) = 2 * MaxId * Cardinality(TargetIds) - 2

\* C19: delete_all_for_object of a source removes every forward entry of
\* the source and the backlink entry of each of its targets, and no other
\* entry.
C19_DeleteAllForObject ==
    [][\A l \in LinkDefs, s \in 1..MaxId :
          (txn = "active" /\ last'.op = "link_delete_all" /\ LinkDeleteAll(l, s)) =>
              LET targets == {t \in AllIds : Forward(l, s, t) \in links}
              IN  /\ last'.res = "Ok"
                  /\ \A e \in links' : <<e[1], e[2]>> # <<l.id, s>>
                  /\ \A t \in targets : Backward(l, s, t) \notin links'
                  /\ links' = links \ ({Forward(l, s, t) : t \in targets}
                                          \cup {Backward(l, s, t) : t \in targets})]_vars

\* C19 witness: delete_all_for_object has found several targets and the
\* edges of another source are still there.
C19_Witness ==
    /\ last.op = "link_delete_all" /\ last.res = "Ok"
    /\ Cardinality(last.removed) >= 2
    /\ links # {}

\* Every forward entry of the link has its backlink entry in the database.
BacklinksPresent(l, ldb) ==
    \A s \in AllIds, t \in AllIds : Forward(l, s, t) \in ldb => Backward(l, s, t) \in ldb

\* C18: a link delete and a delete_all_for_object fail with DbCorrupted
\* exactly when a forward entry they remove has no backlink entry; in a
\* transaction that found every forward entry with its backlink no create,
\* delete, delete_all_for_object or clear returns DbCorrupted.
C18_DbCorruptedIffBacklinkMissing ==
    [][/\ \A s \in EdgeIds, t \in EdgeIds :
            (txn = "active" /\ last'.op = "link_delete" /\ LinkDelete(Friends, s, t)) =>
                (last'.res = "DbCorrupted") =
                    (Forward(Friends, s, t) \in links /\ Backward(Friends, s, t) \notin links)
       /\ \A s \in EdgeIds :
            (txn = "active" /\ last'.op = "link_delete_all" /\ LinkDeleteAll(Friends, s)) =>
                (last'.res = "DbCorrupted") =
                    (\E t \in EdgeIds : /\ Forward(Friends, s, t) \in links
                                        /\ Backward(Friends, s, t) \notin links)
       /\ BacklinksPresent(Friends, snap.links) =>
            /\ last'.res # "DbCorrupted"
            /\ BacklinksPresent(Friends, links')]_vars

\* C18 witness: delete_all_for_object has failed with DbCorrupted on a
\* database that held a forward entry without its backlink entry.
C18_Witness ==
    /\ last.op = "link_delete_all" /\ last.res = "DbCorrupted"
    /\ ~BacklinksPresent(Friends, snap.links)

\* C20: Link iter hands the callback the stored object of each target of
\* the source, each target once, in the order of the target keys; it ends
\* with false at the call at which the callback returns false, with
\* DbCorrupted at the first target that has no primary record, and with
\* true when every target has been handed over; it writes nothing.
C20_IterTargets ==
    [][\A s \in NamedIds, stop \in Stops :
          (txn = "active" /\ last'.op = "link_iter" /\ LinkIter(Friends, s, stop)) =>
              LET targets == {t \in AllIds : Forward(Friends, s, t) \in links}
                  live    == targets \cap DOMAIN data[Friends.target_col_id]
                  seen    == last'.seen
              IN  /\ \A n \in 1..Len(seen) :
                        \E t \in live :
                            /\ seen[n] = data[Friends.target_col_id][t]
                            /\ Cardinality({u \in targets : u < t}) = n - 1
                  /\ last'.res \in {"Ok", "DbCorrupted"}
                  /\ (last'.res = "Ok" /\ last'.retBool) =>
                        /\ Len(seen) = Cardinality(targets)
                        /\ stop = 0 \/ stop > Len(seen)
                  /\ (last'.res = "Ok" /\ ~last'.retBool) => Len(seen) = stop
                  /\ (last'.res = "DbCorrupted") =>
                        /\ \E t \in targets \ live : Cardinality({u \in targets : u < t}) = Len(seen)
                        /\ stop = 0 \/ stop > Len(seen)
                  /\ (targets = live /\ stop = 0) => (last'.res = "Ok" /\ last'.retBool)
                  /\ (targets # live /\ stop = 0) => last'.res = "DbCorrupted"
                  /\ data' = data /\ index' = index /\ links' = links]_vars

\* C20 witness: of the two targets of a source the callback has been handed
\* the object of the first and has returned false.
C20_Witness ==
    /\ last.op = "link_iter" /\ last.res = "Ok" /\ ~last.retBool
    /\ Len(last.seen) = 1
    /\ \E s \in NamedIds :
          /\ Cardinality({t \in AllIds : Forward(Friends, s, t) \in links}) = 2
          /\ last.seen[1] = data[Col][MinOf({t \in AllIds : Forward(Friends, s, t) \in links})]

\* C21: a link clear leaves no forward and no backlink entry of the link,
\* however many targets a source has, and every entry of another link of
\* the same links database is there after it exactly if it was before.
C21_LinkClear ==
    [][\A l \in ClearDefs :
          LinkClear(l) =>
            /\ \A s \in AllIds, t \in AllIds :
                  Forward(l, s, t) \notin links' /\ Backward(l, s, t) \notin links'
            /\ \A m \in SchemaLinks \ {l, to_backlink(l)}, s \in AllIds, t \in AllIds :
                  /\ Forward(m, s, t) \in links' <=> Forward(m, s, t) \in links
                  /\ Backward(m, s, t) \in links' <=> Backward(m, s, t) \in links
            /\ links' \subseteq links]_vars

C21_Witness ==
    /\ last.op = "link_clear" /\ Cardinality(last.removed) >= 2
    /\ \A s \in AllIds, t \in AllIds : Forward(Friends, s, t) \notin links
    /\ \E s \in NamedIds :
          Cardinality({t \in AllIds : Forward(Likes, s, t) \in links}) >= 2

\* C22: every forward and every backlink entry of the links database names
\* a live source record and a live target record, and a link iter never
\* returns DbCorrupted for a missing target.
C22_LinksReferToLiveRecords ==
    /\ \A l \in SchemaLinks, s \in AllIds, t \in AllIds :
          (Forward(l, s, t) \in links \/ Backward(l, s, t) \in links) =>
              s \in DOMAIN data[l.col_id] /\ t \in DOMAIN data[l.target_col_id]
    /\ last.op = "link_iter" => last.res # "DbCorrupted"

\* Two where clauses of one kind name a common id, or a common key of one
\* index.
RangesIntersect(wc1, wc2) ==
    IF wc1.kind = "Id" /\ wc2.kind = "Id"
    THEN \E i \in QueryIds : /\ wc1.lower <= i /\ i <= wc1.upper
                             /\ wc2.lower <= i /\ i <= wc2.upper
    ELSE /\ wc1.kind = "Index" /\ wc2.kind = "Index" /\ wc1.index = wc2.index
         /\ \E v \in QueryVals :
               /\ BytesLeq(wc1.lower_key, EncodeInt(v)) /\ BytesLeq(EncodeInt(v), wc1.upper_key)
               /\ BytesLeq(wc2.lower_key, EncodeInt(v)) /\ BytesLeq(EncodeInt(v), wc2.upper_key)

NoRepeat(seq) == \A m \in 1..Len(seq), n \in 1..Len(seq) : seq[m] = seq[n] => m = n

\* C23: when two where clauses of a query intersect or one of them scans a
\* multi-entry index without skip_duplicates, find_all hands each id to
\* the callback at most once.
C23_EachIdAtMostOnce ==
    last.op = "find_all" =>
        LET q == last.query
        IN  ((\E i \in 1..Len(q), j \in 1..Len(q) : i < j /\ RangesIntersect(q[i], q[j]))
             \/ (\E i \in 1..Len(q) : q[i].kind = "Index"
                                      /\ QueryIndexes[q[i].index].multi_entry
                                      /\ ~q[i].skip_duplicates))
            => NoRepeat(last.seen)

\* C23 witness: two key ranges of one index overlap in part, neither within
\* the other, the ids 2 and 3 lie in both, and find_all has handed each of
\* the three ids over once.
C23_Witness ==
    /\ last.op = "find_all" /\ Len(last.query) = 2
    /\ last.query[1] = IndexWhereClause(1, 1, 2, FALSE)
    /\ last.query[2] = IndexWhereClause(1, 2, 3, FALSE)
    /\ DOMAIN data[Col] = 1..3
    /\ data[Col][1].a = 1 /\ data[Col][2].a = 2 /\ data[Col][3].a = 2
    /\ last.seen = <<1, 2, 3>>

\* C24: is_overlapping is false for an Id clause and an Index clause, is
\* true for two Id clauses exactly if their id ranges intersect and for two
\* Index clauses exactly if they name one index and their key ranges
\* intersect, gives the same answer with the clauses exchanged, and
\* has_duplicates is false for an Id clause.
C24_IsOverlapping ==
    /\ last.op = "is_overlapping" =>
          LET wc1 == last.query[1]
              wc2 == last.query[2]
          IN  /\ wc1.kind # wc2.kind => ~last.retBool
              /\ wc1.kind = wc2.kind => (last.retBool <=> RangesIntersect(wc1, wc2))
              /\ last.retBool <=> is_overlapping(wc2, wc1)
    /\ (last.op = "has_duplicates" /\ last.query[1].kind = "Id") => ~last.retBool

C24_Witness ==
    /\ last.op = "is_overlapping" /\ ~last.retBool
    /\ last.query[1] = IdWhereClause(1, MaxId)
    /\ last.query[2] = IndexWhereClause(1, 1, 2, FALSE)
    /\ DOMAIN data[Col] = 1..MaxId

\* C25: the jobs given to the async writer run one at a time in the order
\* of their submission: when a job has started, every job submitted before
\* it is done, and its end is logged before that start; and every job
\* submitted is run to its end, whether its future was dropped or not.
C25_SerialInSubmissionOrder ==
    /\ [](\A a \in 1..MaxJobs, b \in 1..MaxJobs :
            (a < b /\ Started(writer.log, b)) =>
                \E m \in 1..Len(writer.log), n \in 1..Len(writer.log) :
                    /\ m < n
                    /\ writer.log[m] = <<"done", a>>
                    /\ writer.log[n] = <<"start", b>>)
    /\ \A j \in 1..MaxJobs :
          (j <= Len(writer.submitted)) ~> Done(writer.log, j)

C25_Witness ==
    /\ Len(writer.submitted) = MaxJobs
    /\ \A j \in 1..MaxJobs : Done(writer.log, j)
    /\ writer.dropped # {}
    /\ writer.submitted[1] = "find_all" /\ writer.submitted[MaxJobs] = "count"

\* C26: when create_for_object on a unique index finds an entry at a key and
\* on_conflict returns false for it, the call returns an error and no entry
\* of the new id is at a key of the object.
C26_ConflictRefusedAborts ==
    (last.op = "create_for_object" /\ Indexes[last.ix].unique
        /\ last.called /\ ~last.answer) =>
        /\ last.res # "Ok"
        /\ \A n \in 1..Len(last.keys) : <<last.keys[n], last.id>> \notin index[Col][last.ix]

\* C27: a float between filter with a NaN upper bound matches exactly when
\* the lower bound and the value are NaN; else with a NaN lower bound it
\* matches exactly when the value is NaN or at most the upper bound; else
\* it matches exactly the numbers from the lower to the upper bound.
C27_FloatBetweenNaN ==
    last.op = "float_between" =>
        LET lower == last.args[1]
            upper == last.args[2]
            val   == last.args[3]
        IN  last.ret <=>
              IF upper.nan THEN lower.nan /\ val.nan
              ELSE IF lower.nan THEN val.nan \/ val.v <= upper.v
              ELSE ~val.nan /\ lower.v <= val.v /\ val.v <= upper.v

C27_Witness ==
    /\ last.op = "float_between" /\ last.ret
    /\ last.args = <<NaN, Float(0), NaN>>

\* C28: a string filter with a null pattern matches exactly the null
\* string, one with a pattern never matches the null string, and without
\* case_sensitive it compares the lower-cased pattern with the lower-cased
\* string.
C28_StringFilterNullAndCase ==
    last.op = "string_filter" =>
        LET name      == last.args[1]
            value     == last.args[2]
            sensitive == last.args[3]
            other_str == last.args[4]
        IN  /\ value = {} => (last.ret <=> other_str = {})
            /\ (value # {} /\ other_str = {}) => ~last.ret
            /\ (value # {} /\ other_str # {}) =>
                  (last.ret <=>
                     IF sensitive
                     THEN string_compare(name, The(value), The(other_str))
                     ELSE string_compare(name, to_lowercase(The(value)),
                                         to_lowercase(The(other_str))))

C28_Witness ==
    /\ last.op = "string_filter" /\ last.ret
    /\ last.args = <<"StringStartsWith", {<<97>>}, FALSE, {<<65, 97>>}>>

\* C29: a list contains filter is built exactly for a property of its list
\* type, and it matches exactly when the list is there and holds the value.
C29_ListContains ==
    /\ last.op = "list_filter" =>
          (last.ret = "Ok" <=>
             last.args[2] = (CASE last.args[1] = "ByteListContains" -> "ByteList"
                               [] last.args[1] = "IntListContains" -> "IntList"
                               [] last.args[1] = "LongListContains" -> "LongList"
                               [] last.args[1] = "StringListContains" -> "StringList"))
    /\ last.op = "list_filter" => last.ret \in {"Ok", "IllegalArgument"}
    /\ last.op = "list_evaluate" =>
          (last.ret <=> (last.args[2] # {} /\
                           \E n \in 1..Len(The(last.args[2])) :
                               The(last.args[2])[n] = last.args[1]))
    /\ last.op = "string_list_evaluate" =>
          (last.ret <=> (last.args[3] # {} /\
                           \E n \in 1..Len(The(last.args[3])) :
                               The(last.args[3])[n] = last.args[1]))

\* C30: compare returns the order of the value of object1 and the value of
\* object2, null and NaN first: Equal for equal values, Less and Greater by
\* the order of the values, and the reverse with the objects exchanged.
Reverse(o) == CASE o = "Less" -> "Greater" [] o = "Greater" -> "Less" [] o = "Equal" -> "Equal"

C30_CompareOrders ==
    last.op = "compare" =>
        LET data_type == last.args[1]
            v1 == last.args[2]
            v2 == last.args[3]
        IN  /\ v1 = v2 => last.ret = "Equal"
            /\ last.ret = Reverse(compare(data_type, v2, v1))
            /\ data_type \in {"Float", "Double"} =>
                  /\ (v1.nan /\ ~v2.nan) => last.ret = "Less"
                  /\ (~v1.nan /\ ~v2.nan /\ v1.v > v2.v) => last.ret = "Greater"

(***************************************************************************)
(* RawObject (src/dart-ffi/src/raw_object_set.rs)                          *)
(***************************************************************************)
\* The values of the three u32 fields of an object id.
OidParts == 0..3

\* ObjectId::new(time, counter, rand) and its accessors.
ObjectId_new(time, counter, rand) == [time |-> time, counter |-> counter, rand |-> rand]
get_time(oid) == oid.time
get_counter(oid) == oid.counter
get_rand(oid) == oid.rand
RawOids == {ObjectId_new(t, c, r) : t \in OidParts, c \in OidParts, r \in OidParts}

\* RawObject::new
RawObject_new(oid) ==
    [oid_time |-> get_time(oid), oid_counter |-> get_counter(oid), oid_rand |-> get_rand(oid)]

\* isar_alloc_raw_obj: the three id fields are 0
alloc_raw_obj == [oid_time |-> 0, oid_counter |-> 0, oid_rand |-> 0]

\* RawObject::set_object_id: oid_counter is assigned oid.get_time()
set_object_id(raw, oid) ==
    [raw EXCEPT !.oid_time = get_time(oid),
                !.oid_counter = get_time(oid),
                !.oid_rand = get_rand(oid)]

\* RawObject::get_object_id
get_object_id(raw) ==
    IF raw.oid_time # 0
    THEN {ObjectId_new(raw.oid_time, raw.oid_counter, raw.oid_rand)}
    ELSE {}

InitRaw ==
    /\ data = EmptyStore.data
    /\ index = EmptyStore.index
    /\ links = EmptyStore.links
    /\ oidg = [c \in Cols |-> 0]
    /\ txn = "active"
    /\ snap = EmptyStore
    /\ writer = IdleWriter
    /\ pending = {}
    /\ \/ \E oid \in RawOids : last = Input("new", <<oid>>)
       \/ \E oid \in RawOids : last = Input("set_object_id", <<alloc_raw_obj, oid>>)

\* RawObject::new(oid, object).get_object_id()
RawNew ==
    /\ last.op = "input" /\ last.fn = "new"
    /\ last' = Output(last.fn, last.args, get_object_id(RawObject_new(last.args[1])))
    /\ UNCHANGED <<data, index, links, oidg, txn, snap, writer, pending>>

\* raw.set_object_id(oid); raw.get_object_id()
RawSetObjectId ==
    /\ last.op = "input" /\ last.fn = "set_object_id"
    /\ last' = Output(last.fn, last.args,
                      get_object_id(set_object_id(last.args[1], last.args[2])))
    /\ UNCHANGED <<data, index, links, oidg, txn, snap, writer, pending>>

NextRaw ==
    \/ RawNew
    \/ RawSetObjectId

SpecRaw == InitRaw /\ [][NextRaw]_vars

\* C31: after set_object_id(oid) with a non-zero time, get_object_id returns
\* an id equal to oid (time, counter and rand each from the matching field),
\* the same round trip as RawObject::new gives.
C31_SetObjectIdRoundTrip ==
    /\ (last.op = "new" /\ get_time(last.args[1]) # 0) => last.ret = {last.args[1]}
    /\ (last.op = "set_object_id" /\ get_time(last.args[2]) # 0) =>
          /\ last.ret = {last.args[2]}
          /\ last.ret = get_object_id(RawObject_new(last.args[2]))

(***************************************************************************)
(* put on a collection that declares the index on b before the unique      *)
(* index on a (src/collection.rs, src/index/mod.rs)                        *)
(***************************************************************************)
\* self.indexes of the collection, in the order of the schema.
DeclaredLast == <<2, 1>>

\* for index in &self.indexes { index.create_for_object(..)? }
RECURSIVE create_for_index_seq(_, _, _, _, _, _)
create_for_index_seq(ixs, r, c, id, object, replace_on_conflict) ==
    IF ixs = <<>> \/ r.err # "" THEN r
    ELSE create_for_index_seq(Tail(ixs),
             create_for_object(Head(ixs), r, c, id, object, replace_on_conflict),
             c, id, object, replace_on_conflict)

\* IsarCollection::put of a collection whose indexes are ixs.
put_ordered(ixs, st, g, c, oid, object, replace_on_conflict) ==
    LET gv == generate_or_veriy_oid(st, g, c, oid)
    IN  IF gv.err # ""
        THEN [st |-> gv.st, g |-> gv.g, err |-> gv.err, ret |-> {}]
        ELSE IF ~verify_object(object)
        THEN [st |-> gv.st, g |-> gv.g, err |-> "IllegalArgument", ret |-> {}]
        ELSE LET id == The(gv.oid).id
                 r  == create_for_index_seq(ixs, Ok(gv.st), c, id, object, replace_on_conflict)
             IN  IF r.err # ""
                 THEN [st |-> r.st, g |-> gv.g, err |-> r.err, ret |-> {}]
                 ELSE [st |-> [r.st EXCEPT !.data[c] = db_put(@, id, object)],
                       g |-> gv.g, err |-> "", ret |-> gv.oid]

\* A put that fails leaves the store as it was when the error was met: the
\* transaction of the call keeps what was written before.
PutOrdered(c, oid, object, roc) ==
    \/ Poisoned("put")
    \/ /\ txn = "active"
       /\ oid = {} => oidg[c] < MaxGen
       /\ LET p == put_ordered(DeclaredLast, Current, oidg[c], c, oid, object, roc)
          IN  /\ SetStore(p.st)
              /\ oidg' = [oidg EXCEPT ![c] = p.g]
              /\ txn' = TxnAfter(p.err)
              /\ last' = IF p.err = ""
                         THEN [Call("put", oid, "Ok", p.ret, FALSE) EXCEPT
                                  !.removed = DOMAIN data[c] \ DOMAIN p.st.data[c],
                                  !.existed = The(p.ret).id \in DOMAIN data[c]]
                         ELSE Call("put", {}, p.err, {}, FALSE)
       /\ UNCHANGED <<snap, writer, pending>>

NextOrder ==
    \/ \E oid \in PutIds, object \in Objects, roc \in BOOLEAN : PutOrdered(Col, oid, object, roc)
    \/ \E oid \in DeleteIds : Delete(Col, oid)

SpecOrder == Init /\ [][NextOrder]_vars

\* C32: when put meets a conflict on a unique index with another id, nothing
\* of the new object has been written: the primary database is as before the
\* call and no index holds an entry it did not hold before the call.
C32_ChecksBeforeWrites ==
    [][(last'.op = "put" /\ last'.res = "UniqueViolation" /\ txn = "active") =>
          /\ data' = data
          /\ \A c \in Cols, ix \in IndexIx : index'[c][ix] \subseteq index[c][ix]]_vars

(***************************************************************************)
(* The stores a delete passes through (src/collection.rs)                  *)
(***************************************************************************)
\* IsarCollection::delete: the store before the call, after
\* delete_from_indexes, and (when the record was found) after db.delete.
delete_steps(st, c, oid) ==
    LET d == delete_from_indexes(st, c, oid.id)
    IN  IF d.found
        THEN <<st, d.st, [d.st EXCEPT !.data[c] = db_delete(@, oid.id)]>>
        ELSE <<st, d.st>>

\* No index entry and no link entry of the store names id.
NothingNames(st, c, id) ==
    /\ \A ix \in IndexIx : \A e \in st.index[c][ix] : e[2] # id
    /\ \A l \in LinksOf(c) \cup BacklinksOf(c) : \A e \in st.links : ~(e[1] = l.id /\ e[2] = id)

\* C33: a delete of an existing record removes the index entries and the
\* incident links of the record before its primary entry: no store the call
\* passes through has an index entry or a link of id without the primary
\* record of id; a delete of an absent id writes nothing.
C33_DeleteOrder ==
    [][\A oid \in OwnIds :
          (last'.op = "delete" /\ last'.oid = {oid} /\ txn = "active") =>
              LET steps == delete_steps(Current, Col, oid)
              IN  /\ Store(data', index', links') = steps[Len(steps)]
                  /\ oid.id \in DOMAIN data[Col] =>
                        \A n \in 2..Len(steps) :
                            oid.id \notin DOMAIN steps[n].data[Col] =>
                                NothingNames(steps[n], Col, oid.id)
                  /\ oid.id \notin DOMAIN data[Col] =>
                        \A n \in 1..Len(steps) : steps[n] = Current]_vars

\* C34: a put that replaces the record of its own id leaves the links of
\* that record as they were, but for those to or from a conflicting record
\* the put deleted; the links database changes only in a link call, in a
\* delete, or in a put that deleted a conflicting record.
C34_ReplaceKeepsLinks ==
    [][/\ (last'.op = "put" /\ last'.res = "Ok" /\ last'.existed) =>
            /\ links' \subseteq links
            /\ \A e \in links \ links' : e[2] \in last'.removed \/ e[4] \in last'.removed
            /\ last'.removed = {} => links' = links
       /\ links' # links =>
            \/ last'.op \in {"link_create", "link_delete", "link_delete_all", "link_clear"}
            \/ last'.op = "delete"
            \/ last'.op = "put" /\ last'.removed # {}]_vars

C34_Witness ==
    /\ last.op = "put" /\ last.res = "Ok" /\ last.existed /\ last.removed = {}
    /\ \E e \in links : e[2] = The(last.retId).id /\ e[4] # e[2]

(***************************************************************************)
(* Property::is_null (src/object/property.rs) and the conditions built on  *)
(* it (src/query/filter.rs)                                                *)
(***************************************************************************)
\* The null sentinels of the static types. An i64 is held as its high word
\* (i32) and its low word (u32).
NULL_BYTE == 0
NULL_INT == (0 - 2147483647) - 1
Long(hi, lo) == [hi |-> hi, lo |-> lo]
NULL_LONG == Long(NULL_INT, 0)

\* The two u32 words of a dynamic property: offset and length.
Words(offset, length) == [offset |-> offset, length |-> length]

\* Property {data_type, offset}; an object is given by the value it holds at
\* each offset, the offsets being named after the properties.
Property(data_type, offset) == [data_type |-> data_type, offset |-> offset]

\* Property::get_byte, get_int, get_long, get_float, get_double
get_value(property, object) == object[property.offset]

\* Property::get_dynamic_position
get_dynamic_position(property, object) ==
    LET w == object[property.offset]
    IN  IF w.offset = 0 THEN {} ELSE {Words(w.offset, w.length)}

\* Property::get_length
get_length(property, object) ==
    LET pos == get_dynamic_position(property, object)
    IN  IF pos = {} THEN {} ELSE {The(pos).length}

\* Property::is_null
is_null_by_length(property, object) ==
    CASE property.data_type = "Byte" -> get_value(property, object) = NULL_BYTE
      [] property.data_type = "Int" -> get_value(property, object) = NULL_INT
      [] property.data_type = "Long" -> get_value(property, object) = NULL_LONG
      [] property.data_type \in {"Float", "Double"} -> is_nan(get_value(property, object))
      [] OTHER -> object[property.offset].length = 0
is_null(property, object) ==
    CASE property.data_type = "Byte" -> get_value(property, object) = NULL_BYTE
      [] property.data_type = "Int" -> get_value(property, object) = NULL_INT
      [] property.data_type = "Long" -> get_value(property, object) = NULL_LONG
      [] property.data_type \in {"Float", "Double"} -> is_nan(get_value(property, object))
      [] OTHER -> get_length(property, object) = {}

\* <= of u8, i32 and i64.
num_le(data_type, x, y) ==
    IF data_type = "Long"
    THEN x.hi < y.hi \/ (x.hi = y.hi /\ x.lo <= y.lo)
    ELSE x <= y

\* filter_between_struct!: [<$name Cond>]::filter
BetweenFilters == {"ByteBetween", "IntBetween", "LongBetween"}
between_data_type(name) ==
    CASE name = "ByteBetween" -> "Byte"
      [] name = "IntBetween" -> "Int"
      [] name = "LongBetween" -> "Long"
between_filter(name, property, lower, upper) ==
    IF property.data_type = between_data_type(name)
    THEN {[kind |-> name, property |-> property, lower |-> lower, upper |-> upper]}
    ELSE {}

\* IsNullCond::filter, AndCond::filter, OrCond::filter, NotCond::filter
IsNullCond(property) == [kind |-> "IsNull", property |-> property]
AndCond(filters) == [kind |-> "And", filters |-> filters]
OrCond(filters) == [kind |-> "Or", filters |-> filters]
NotCond(filter) == [kind |-> "Not", filter |-> filter]

\* Condition::evaluate. And returns false at the first child that does not
\* match, Or returns true at the first child that matches.
RECURSIVE evaluate_exclusive(_, _)
RECURSIVE evaluate(_, _)
evaluate_exclusive(filter, object) ==
    CASE filter.kind = "IsNull" -> is_null(filter.property, object)
      [] filter.kind \in BetweenFilters ->
            LET val == get_value(filter.property, object)
                t == filter.property.data_type
            IN  /\ num_le(t, filter.lower, val) /\ filter.lower # val
                /\ num_le(t, val, filter.upper) /\ filter.upper # val
      [] filter.kind = "And" ->
            IF filter.filters = <<>> THEN TRUE
            ELSE IF ~evaluate(Head(filter.filters), object) THEN FALSE
            ELSE evaluate(AndCond(Tail(filter.filters)), object)
      [] filter.kind = "Or" ->
            IF filter.filters = <<>> THEN FALSE
            ELSE IF evaluate(Head(filter.filters), object) THEN TRUE
            ELSE evaluate(OrCond(Tail(filter.filters)), object)
      [] filter.kind = "Not" -> ~evaluate(filter.filter, object)
evaluate(filter, object) ==
    CASE filter.kind = "IsNull" -> is_null(filter.property, object)
      [] filter.kind \in BetweenFilters ->
            LET val == get_value(filter.property, object)
                t == filter.property.data_type
            IN  num_le(t, filter.lower, val) /\ num_le(t, val, filter.upper)
      [] filter.kind = "And" ->
            IF filter.filters = <<>> THEN TRUE
            ELSE IF ~evaluate(Head(filter.filters), object) THEN FALSE
            ELSE evaluate(AndCond(Tail(filter.filters)), object)
      [] filter.kind = "Or" ->
            IF filter.filters = <<>> THEN FALSE
            ELSE IF evaluate(Head(filter.filters), object) THEN TRUE
            ELSE evaluate(OrCond(Tail(filter.filters)), object)
      [] filter.kind = "Not" -> ~evaluate(filter.filter, object)

\* The records the conditions are evaluated on hold a number at price, of
\* the type the schema gives the property, and a string at name.
Prices == {5, 10, 15, 20, 25}
PriceBounds == {10, 20}
NumberTypes == {"Byte", "Int", "Long"}
NumOf(data_type, n) == IF data_type = "Long" THEN Long(0, n) ELSE n
NumsOf(data_type) ==
    {NumOf(data_type, n) : n \in Prices} \cup
    (IF data_type = "Long" THEN {Long(0 - 1, 15), Long(1, 15)} ELSE {})
NameWords == {Words(0, 0), Words(16, 1)}
Record(price, name) == [price |-> price, name |-> name]

PriceInt == Property("Int", "price")
NameString == Property("String", "name")
CondAtoms ==
    {The(between_filter("IntBetween", PriceInt, lower, upper)) :
        lower \in PriceBounds, upper \in PriceBounds}
    \cup {IsNullCond(NameString), IsNullCond(PriceInt)}
CondLeaves == CondAtoms \cup {NotCond(f) : f \in CondAtoms}
CondLists == UNION {[1..n -> CondLeaves] : n \in 0..2}
Conds == {AndCond(fs) : fs \in CondLists} \cup {OrCond(fs) : fs \in CondLists}
CondRecords == {Record(p, w) : p \in Prices \cup {NULL_INT}, w \in NameWords}

\* The values a property of each type can hold in the one field v.
FieldValues(data_type) ==
    CASE data_type = "Byte" -> {NULL_BYTE, 1, 255}
      [] data_type = "Int" -> {NULL_INT, 0 - 1, 0, 1}
      [] data_type = "Long" -> {NULL_LONG, Long(NULL_INT, 1), Long(0, 0), Long(0 - 1, 0)}
      [] data_type \in {"Float", "Double"} -> Floats
      [] OTHER -> {Words(offset, length) : offset \in {0, 8}, length \in {0, 1, 5}}

InitCond ==
    /\ data = EmptyStore.data
    /\ index = EmptyStore.index
    /\ links = EmptyStore.links
    /\ oidg = [c \in Cols |-> 0]
    /\ txn = "active"
    /\ snap = EmptyStore
    /\ writer = IdleWriter
    /\ pending = {}
    /\ \/ \E name \in BetweenFilters, t \in NumberTypes :
          \E lower \in NumsOf(t), upper \in NumsOf(t), val \in NumsOf(t) :
             last = Input("between", <<name, Property(t, "price"), lower, upper,
                                       Record(val, Words(0, 0))>>)
       \/ \E filter \in Conds, object \in CondRecords :
             last = Input("evaluate", <<filter, object>>)
       \/ \E t \in DataTypes : \E v \in FieldValues(t) :
             last = Input("is_null", <<Property(t, "v"), [v |-> v]>>)

\* [<$name Cond>]::filter(property, lower, upper), then evaluate on the object
BetweenCond ==
    /\ last.op = "input" /\ last.fn = "between"
    /\ LET f == between_filter(last.args[1], last.args[2], last.args[3], last.args[4])
       IN  last' = IF f = {}
                   THEN [Output(last.fn, last.args, FALSE) EXCEPT !.res = "IllegalArgument"]
                   ELSE Output(last.fn, last.args, evaluate(The(f), last.args[5]))
    /\ UNCHANGED <<data, index, links, oidg, txn, snap, writer, pending>>

\* Filter::evaluate of an And or Or condition
Evaluate ==
    /\ last.op = "input" /\ last.fn = "evaluate"
    /\ last' = Output(last.fn, last.args, evaluate(last.args[1], last.args[2]))
    /\ UNCHANGED <<data, index, links, oidg, txn, snap, writer, pending>>

\* Property::is_null
IsNull ==
    /\ last.op = "input" /\ last.fn = "is_null"
    /\ last' = Output(last.fn, last.args, is_null(last.args[1], last.args[2]))
    /\ UNCHANGED <<data, index, links, oidg, txn, snap, writer, pending>>

NextCond ==
    \/ BetweenCond
    \/ Evaluate
    \/ IsNull

SpecCond == InitCond /\ [][NextCond]_vars

\* The number a u8, an i32 or an i64 of the records stands for (the low
\* words of the records are below 100).
NumberOf(data_type, x) == IF data_type = "Long" THEN x.hi * 100 + x.lo ELSE x

\* A condition matches an object: Between with both bounds included, And
\* when every child matches, Or when some child does, Not when its child
\* does not.
RECURSIVE Matches(_, _)
Matches(filter, object) ==
    CASE filter.kind = "IsNull" ->
            IF filter.property.data_type = "Int"
            THEN object[filter.property.offset] = NULL_INT
            ELSE object[filter.property.offset].offset = 0
      [] filter.kind \in BetweenFilters ->
            LET t == filter.property.data_type
                val == NumberOf(t, object[filter.property.offset])
            IN  NumberOf(t, filter.lower) <= val /\ val <= NumberOf(t, filter.upper)
      [] filter.kind = "And" ->
            \A n \in 1..Len(filter.filters) : Matches(filter.filters[n], object)
      [] filter.kind = "Or" ->
            \E n \in 1..Len(filter.filters) : Matches(filter.filters[n], object)
      [] filter.kind = "Not" -> ~Matches(filter.filter, object)

\* Between(price, 10, 20) AND Not(IsNull(name))
ExampleCond ==
    AndCond(<<The(between_filter("IntBetween", PriceInt, 10, 20)),
              NotCond(IsNullCond(NameString))>>)

\* C35: a between condition of Byte, Int or Long matches iff lower <= value
\* <= upper, both bounds included; And matches iff every child matches, Not
\* inverts its child; Between(price, 10, 20) AND Not(IsNull(name)) matches,
\* of the records (5, null), (10, a), (15, null), (20, b), (25, c), the
\* second and the fourth only.
C35_BetweenAndNot ==
    /\ (last.op = "between" /\ last.res = "Ok") =>
          LET t == last.args[2].data_type
              val == NumberOf(t, last.args[5].price)
          IN  last.ret <=> (NumberOf(t, last.args[3]) <= val /\ val <= NumberOf(t, last.args[4]))
    /\ last.op = "evaluate" => (last.ret <=> Matches(last.args[1], last.args[2]))
    /\ (last.op = "evaluate" /\ last.args[1] = ExampleCond) =>
          /\ last.args[2] = Record(5, Words(0, 0)) => ~last.ret
          /\ last.args[2] = Record(10, Words(16, 1)) => last.ret
          /\ last.args[2] = Record(15, Words(0, 0)) => ~last.ret
          /\ last.args[2] = Record(20, Words(16, 1)) => last.ret
          /\ last.args[2] = Record(25, Words(16, 1)) => ~last.ret

C35_Witness ==
    /\ last.op = "evaluate" /\ last.args[1] = ExampleCond
    /\ last.args[2] = Record(20, Words(16, 1)) /\ last.ret

\* C36: is_null is true exactly for the null sentinel of the type: Byte 0,
\* Int i32::MIN, Long i64::MIN, Float and Double NaN; a string or a list is
\* null iff its offset word is 0, whatever its length word.
C36_IsNullSentinels ==
    last.op = "is_null" =>
        LET t == last.args[1].data_type
            v == last.args[2].v
        IN  last.ret <=>
               CASE t = "Byte" -> v = 0
                 [] t = "Int" -> v < 0 - 2147483647
                 [] t = "Long" -> v.hi < 0 - 2147483647 /\ v.lo = 0
                 [] t \in {"Float", "Double"} -> v = NaN
                 [] OTHER -> v.offset = 0

\* an empty string at a non-zero offset is not null, and a string with a
\* length at offset 0 is
C36_Witness ==
    /\ last.op = "is_null" /\ last.args[1].data_type \in {"String", "ByteList"}
    /\ \/ last.args[2].v = Words(8, 0) /\ ~last.ret
       \/ last.args[2].v = Words(0, 1) /\ last.ret

(***************************************************************************)
(* IsarCollection::get_by_index over IsarIndex::get_id                     *)
(***************************************************************************)
\* IsarCollection::get_by_index: the id of the index entry and the object
\* the primary database holds under it.
get_by_index(st, c, ix, key) ==
    LET id == get_id(st.index[c][ix], key)
    IN  IF id = {} \/ db_get(st.data[c], The(id)) = {} THEN {}
        ELSE {<<The(id), The(db_get(st.data[c], The(id)))>>}

\* isar_get_by_index -> IsarCollection::get_by_index
GetByIndex(c, ix, key) ==
    /\ txn = "active"
    /\ last' = [op |-> "get_by_index", res |-> "Ok", ix |-> ix, key |-> key,
                id |-> get_id(index[c][ix], key),
                ret |-> get_by_index(Current, c, ix, key)]
    /\ UNCHANGED <<data, index, links, oidg, txn, snap, writer, pending>>

\* The keys asked for: those of the values the objects hold and one of a
\* value in between, which no object holds.
AskedVals == Vals \cup {MinOf(Vals) + 1}

NextGet ==
    \/ \E oid \in OwnIds, object \in ValidObjects, roc \in BOOLEAN : Put(Col, {oid}, object, roc)
    \/ \E oid \in OwnIds : Delete(Col, oid)
    \/ \E ix \in IndexIx, v \in AskedVals : GetByIndex(Col, ix, EncodeInt(v))

SpecGet == Init /\ [][NextGet]_vars

\* C37: get_id(key), and so get_by_index, returns the first entry in
\* ascending order among the entries whose key equals the key asked for,
\* and none when no entry has that key; an entry of another key is never
\* returned.
C37_GetIdFirstAtKey ==
    last.op = "get_by_index" =>
        LET at == {e \in index[Col][last.ix] : e[1] = last.key}
        IN  /\ at = {} => (last.id = {} /\ last.ret = {})
            /\ at # {} => last.id = {MinOf({e[2] : e \in at})}
            /\ last.ret # {} =>
                  /\ <<last.key, The(last.ret)[1]>> \in index[Col][last.ix]
                  /\ last.id = {The(last.ret)[1]}
                  /\ db_get(data[Col], The(last.ret)[1]) = {The(last.ret)[2]}

\* two entries at the key asked for, of which the first is returned
C37_Witness ==
    /\ last.op = "get_by_index" /\ last.ret # {}
    /\ Cardinality({e \in index[Col][last.ix] : e[1] = last.key}) >= 2
    /\ \A e \in index[Col][last.ix] : The(last.ret)[1] <= e[2]

\* C38: delete_for_object(id, object) removes only entries whose value is
\* id: the index entries a delete of a record takes away all point at the
\* id of that record, in the unique index too.
C38_DeleteForObjectOwnEntries ==
    [][\A oid \in DeleteIds :
          (last'.op = "delete" /\ last'.res = "Ok" /\ last'.oid = {oid} /\ txn = "active") =>
              \A ix \in IndexIx : \A e \in index[Col][ix] \ index'[Col][ix] : e[2] = oid.id]_vars

\* a delete took the entries of its record and left those of another one
C38_Witness ==
    /\ last.op = "delete" /\ last.res = "Ok" /\ last.retBool
    /\ \A ix \in IndexIx :
          /\ index[Col][ix] # {}
          /\ \A e \in index[Col][ix] : e[2] # The(last.oid).id

(***************************************************************************)
(* prepare_put and finish_put (src/collection.rs)                          *)
(***************************************************************************)
\* Db::reserve: the primary entry of the id, of the size asked for, for the
\* caller to write the object into.
db_reserve(d, id, size) == db_put(d, id, [len |-> size, a |-> 0, b |-> 0])

\* IsarCollection::prepare_put after take_write_txn: the PendingPut holds
\* the id and the reserved space, and keeps the write txn.
prepare_put(st, g, c, oid, size) ==
    LET gv == generate_or_veriy_oid(st, g, c, oid)
    IN  IF gv.err # ""
        THEN [st |-> gv.st, g |-> gv.g, err |-> gv.err, oid |-> {}]
        ELSE [st |-> [gv.st EXCEPT !.data[c] = db_reserve(@, The(gv.oid).id, size)],
              g |-> gv.g, err |-> "", oid |-> gv.oid]

\* IsarCollection::finish_put, pending.object being the bytes the reserved
\* space holds by now.
finish_put(st, c, oid, replace_on_conflict) ==
    LET object == The(db_get(st.data[c], oid.id))
    IN  IF ~verify_object(object) THEN Err(st, "IllegalArgument")
        ELSE create_for_indexes(1, Ok(st), c, oid.id, object, replace_on_conflict)

\* isar_put split in two: prepare_put. take_write_txn()? ends the call on
\* a transaction that has lost its write txn or whose write txn is in a
\* PendingPut; else the write txn goes to the PendingPut returned, or is
\* lost with the error of generate_or_veriy_oid, and the transaction has
\* none until finish_put gives it back.
PreparePut(c, oid, size) ==
    \/ /\ txn = "poisoned"
       /\ last' = [op |-> "prepare_put", res |-> "TransactionPoisoned",
                   oid |-> oid, retId |-> {}, size |-> size,
                   start |-> Current, g |-> oidg[c]]
       /\ UNCHANGED <<data, index, links, oidg, txn, snap, writer, pending>>
    \/ /\ txn = "active"
       /\ oid = {} => oidg[c] < MaxGen
       /\ LET p == prepare_put(Current, oidg[c], c, oid, size)
          IN  /\ SetStore(p.st)
              /\ oidg' = [oidg EXCEPT ![c] = p.g]
              /\ txn' = "poisoned"
              /\ pending' = IF p.err = ""
                            THEN {[oid |-> oid, retId |-> p.oid, size |-> size,
                                   start |-> Current, g |-> oidg[c]]}
                            ELSE pending
              /\ last' = [op |-> "prepare_put", res |-> IF p.err = "" THEN "Ok" ELSE p.err,
                          oid |-> oid, retId |-> p.oid, size |-> size,
                          start |-> Current, g |-> oidg[c]]
       /\ UNCHANGED <<snap, writer>>

\* The caller writes the object into the reserved space of the PendingPut
\* and calls finish_put, which takes the PendingPut and, when it returns Ok,
\* has given its write txn back to the transaction.
FinishPut(c, object, roc) ==
    /\ pending # {}
    /\ object.len = The(pending).size
    /\ LET pp      == The(pending)
           written == [Current EXCEPT !.data[c] = db_put(@, The(pp.retId).id, object)]
           r       == finish_put(written, c, The(pp.retId), roc)
       IN  /\ SetStore(r.st)
           /\ txn' = TxnAfter(r.err)
           /\ pending' = {}
           /\ last' = [op |-> "finish_put", res |-> IF r.err = "" THEN "Ok" ELSE r.err,
                       oid |-> pp.oid, retId |-> pp.retId, size |-> pp.size,
                       start |-> pp.start, g |-> pp.g, object |-> object, roc |-> roc]
    /\ UNCHANGED <<oidg, snap, writer>>

NextPending ==
    \/ \E oid \in PutIds, size \in {StaticSize, StaticSize - 1} : PreparePut(Col, oid, size)
    \/ \E object \in Objects, roc \in BOOLEAN : FinishPut(Col, object, roc)
    \/ \E oid \in OwnIds : Delete(Col, oid)

SpecPending == Init /\ [][NextPending]_vars

\* C39: prepare_put(id, size) and finish_put, with the object written into
\* the reserved space, return the id put(id, object) returns from the same
\* starting state and leave the primary database and every index as put
\* leaves them, also when the id names an existing record and when the
\* object is invalid.
C39_PreparedPutIsPut ==
    /\ (last.op = "prepare_put" /\ last.res \notin {"Ok", "TransactionPoisoned"}) =>
          \A object \in Objects :
              LET p == put(last.start, last.g, Col, last.oid, object, FALSE)
              IN  /\ p.err = last.res
                  /\ data = p.st.data /\ index = p.st.index
    /\ last.op = "finish_put" =>
          LET p == put(last.start, last.g, Col, last.oid, last.object, last.roc)
          IN  /\ (IF p.err = "" THEN "Ok" ELSE p.err) = last.res
              /\ p.err = "" => p.ret = last.retId
              /\ data = p.st.data
              /\ index = p.st.index

\* A step is a call of get, put or delete of the collection with this id.
CalledWith(oid) ==
    /\ last'.op \in {"get", "put", "delete"}
    /\ \/ last'.op = "get" /\ Get(Col, oid)
       \/ last'.op = "delete" /\ Delete(Col, oid)
       \/ last'.op = "put" /\ \E object \in TxnObjects, roc \in BOOLEAN :
                                  Put(Col, {oid}, object, roc)

\* C40 (as claimed): get, put and delete called with an id whose prefix is
\* that of another collection return IllegalArgument and leave the primary
\* database and the indexes of every collection unchanged.
C40_WrongPrefixIllegalArgument ==
    [][\A oid \in DeleteIds :
          (oid.prefix # Col /\ CalledWith(oid)) =>
              /\ last'.res = "IllegalArgument"
              /\ data' = data /\ index' = index]_vars

\* C40: get and delete called with an id of another collection return
\* IllegalArgument; put does so on a transaction that has its write txn, and
\* returns TransactionPoisoned on a poisoned one; neither changes the
\* primary database or an index of any collection.
C40_WrongPrefixRejected ==
    [][\A oid \in DeleteIds :
          (oid.prefix # Col /\ CalledWith(oid)) =>
              /\ last'.res = IF last'.op = "put" /\ txn = "poisoned"
                             THEN "TransactionPoisoned" ELSE "IllegalArgument"
              /\ data' = data /\ index' = index]_vars

\* a put with an id of the other collection was refused on a collection
\* that holds records
C40_Witness ==
    /\ last.op = "put" /\ last.res = "IllegalArgument"
    /\ DOMAIN data[Col] # {}
    /\ \A ix \in IndexIx : index[Col][ix] # {}

====
